---- MODULE Spec2Model ----
(***************************************************************************)
(* Model of the Polymarket streaming client (PolymarketWebSocket,          *)
(* src/src/lib/polymarket/websocket.ts): the connection life cycle with    *)
(* its fixed-delay reconnection, the per-asset callback registry and the   *)
(* dispatch of inbound frames; and of the two strategy engines that use    *)
(* it: MarketMaker (src/src/lib/strategies/market-maker.ts) and            *)
(* ArbitrageDetector (src/src/app/api/markets/route.ts).                   *)
(*                                                                         *)
(* The JavaScript event loop runs one task at a time, so every public      *)
(* method call, every transport event and every timer firing is one        *)
(* atomic action.  The transport objects (WebSocket) follow the WHATWG     *)
(* life cycle CONNECTING -> OPEN -> CLOSING -> CLOSED; a transport that     *)
(* fails fires its error event and then its close event in the same task.  *)
(* An async method runs up to its first `await` in the task of its caller; *)
(* what follows the await is a continuation that runs later, as a step of  *)
(* its own.                                                                *)
(*                                                                         *)
(* Numbers are fixed-point: the number x is the integer x * SCALE.  The    *)
(* rounding error of IEEE doubles (below 1e-15 here) is not modelled;      *)
(* decimal strings are parsed and formatted digit by digit.                *)
(***************************************************************************)
EXTENDS Integers, Sequences, FiniteSets, TLC

(* ------------------------------ bounds --------------------------------- *)

\* transports that may be alive (not CLOSED) at the same time
MaxSockets == 2
\* config.maxReconnectAttempts of the modelled instance (the default is 10)
MaxReconnectAttempts == 2
\* reconnect timers that may be pending at the same time
MaxTimers == 1
\* registrations (asset, callback) kept in the two callback maps together
MaxRegs == 2
\* registrations kept while several transports are alive (Spec)
ConnRegs == 1
\* transports alive at the same time while several registrations are kept
\* (SpecRegistry)
RegistryLive == 1
\* asset ids passed in one subscribe/unsubscribe call
MaxIds == 2
\* setInterval timers that may be running at the same time
MaxIntervals == 2
\* continuations of async methods that may be pending at the same time
MaxAwaiting == 2
\* registrations kept by the engines (SpecEngines)
EngineRegs == 2
\* market ids passed in one ArbitrageDetector.start call
MaxMarkets == 2

(* ------------------------------ domains -------------------------------- *)

Assets == {"a1", "a2"}
Handlers == {"h1", "h2"}
SockIds == 1..MaxSockets
TimerIds == 1..MaxIntervals
Markets == {"m1", "m2"}
\* per asset: stop() was never called ("fresh"), is at its await
\* ("stopping"), has completed with no start() since ("stopped"), or start()
\* was called after a stop() ("restarted")
Lives == {"fresh", "stopping", "stopped", "restarted"}
NULL == 0
UNDEF == "undefined"
NOW == "now"

\* argument arrays of subscribeOrderBook / subscribePrice / unsubscribe
IdLists == UNION {[1..n -> Assets] : n \in 0..MaxIds}

\* the integer that stands for the number 1
SCALE == 2 * 10^7
\* the number num/den
Num(num, den) == (SCALE \div den) * num

\* A decimal string such as "0.40" is its sign, its integer part and the
\* sequence of its fractional digits: Dec(0, <<4, 0>>).
Dec(int, frac) == [neg |-> FALSE, int |-> int, frac |-> frac]

\* An optional member of an inbound frame is a sequence: <<>> when the member
\* is absent, <<x>> when it is present with value x.
\* the `data` member of a frame: an empty object, or a full payload
EmptyData == [bids |-> <<>>, asks |-> <<>>, timestamp |-> <<>>, price |-> <<>>]
FullData == [bids |-> << <<[price |-> Dec(0, <<4, 0>>), size |-> Dec(100, <<>>)]>> >>,
             asks |-> << <<[price |-> Dec(0, <<4, 4>>), size |-> Dec(100, <<>>)]>> >>,
             timestamp |-> <<"t1">>,
             price |-> <<Dec(0, <<4, 8>>)>>]

\* inbound frames: GARBAGE is text JSON.parse rejects, the others are the
\* objects JSON.parse returns
GARBAGE == [type |-> "garbage", asset_id |-> UNDEF, market |-> <<>>, data |-> <<>>]
Messages ==
    [type : {"book"}, asset_id : Assets, market : {<<"m1">>}, data : {<<FullData>>}]
    \cup [type : {"price_change"}, asset_id : Assets, market : {<<>>}, data : {<<FullData>>}]
    \cup [type : {"book"}, asset_id : {"a1"}, market : {<<>>}, data : {<<>>, <<EmptyData>>}]
    \cup [type : {"last_trade_price"}, asset_id : {"a1"}, market : {<<>>}, data : {<<FullData>>}]
Frames == {GARBAGE} \cup Messages

\* arguments of MarketMaker.calculateQuotes / generateSignals: order books
\* whose sides are empty or hold one or two levels
BookPrices == {Dec(0, <<4, 0>>), Dec(0, <<4, 4>>), Dec(0, <<4, 0, 0, 0, 6>>)}
Level(p) == [price |-> p, size |-> Dec(100, <<>>)]
Sides == {<<>>} \cup {<<Level(p)>> : p \in BookPrices}
              \cup {<<Level(Dec(0, <<4, 0>>)), Level(Dec(0, <<3, 9>>))>>}
Books == [market : {"m1"}, asset_id : {"a1"}, bids : Sides, asks : Sides,
          timestamp : {"t1"}]
\* values a caller stores in the position of a state entry
Positions == {-Num(105, 1), -Num(100, 1), 0, Num(100, 1), Num(105, 1)}

\* arguments of ArbitrageDetector.start
MarketLists == UNION {[1..n -> Markets] : n \in 0..MaxMarkets}
\* prices of the two legs of a market.  No two of them sum to 0.99: there
\* the rounding error of doubles, which is not modelled, decides the
\* comparison of the spread with minSpread = 0.01.
ArbPrices == {0, Num(42, 100), Num(45, 100), Num(47, 100), Num(48, 100),
              Num(515, 1000), Num(55, 100), Num(90, 100)}
\* (yesPrice, noPrice) handed to updatePrices
PricePairs == {<<0, Num(48, 100)>>, <<Num(48, 100), Num(47, 100)>>,
               <<Num(45, 100), Num(45, 100)>>, <<Num(48, 100), Num(515, 1000)>>,
               <<Num(45, 100), Num(55, 100)>>, <<Num(47, 100), Num(515, 1000)>>}
\* arguments of checkYesNoArbitrage
TestMarkets == [marketId : {"m1"}, yesAssetId : {"y1"}, noAssetId : {"n1"},
                yesPrice : ArbPrices, noPrice : ArbPrices, lastUpdate : {1}]

(* ------------------------------- state --------------------------------- *)

VARIABLES
    sockets,            \* readyState of every transport the client created
    ws,                 \* this.ws: the current transport, or NULL
    reconnectAttempts,  \* this.reconnectAttempts
    isConnecting,       \* this.isConnecting
    shouldReconnect,    \* this.shouldReconnect
    orderBookCallbacks, \* this.orderBookCallbacks: Map asset -> callbacks
    priceCallbacks,     \* this.priceCallbacks: Map asset -> callbacks
    onError,            \* this.onError is set
    timers,             \* pending setTimeout callbacks of attemptReconnect
    op,                 \* the operation or event that ran last
    sent,               \* frames written to a transport by the last step
    calls,              \* callback invocations made by the last step
    errs,               \* errors handed to this.onError by the last step
    disc,               \* disconnect() was called and connect() not since
    run,                \* progress of an all-failing connect sequence
    awaiting,           \* continuations of async methods stopped at an await
    hasCreds,           \* what hasCredentials() returns
    states,             \* MarketMaker.states: Map asset -> MarketMakerState
    refreshTimers,      \* MarketMaker.refreshTimers: Map asset -> timer
    intervals,          \* the setInterval timers that are running
    config,             \* ArbitrageDetector.config
    isRunning,          \* ArbitrageDetector.isRunning
    monitoredMarkets,   \* ArbitrageDetector.monitoredMarkets: Map market -> entry
    onOpportunity,      \* ArbitrageDetector.onOpportunity is set
    life,               \* per asset: how far MarketMaker.stop got, see Lives
    signals,            \* trade signals the market maker produced in the last step
    ret,                \* what the engine method called last returned
    opps                \* opportunities handed to onOpportunity by the last step

conn == <<sockets, ws, reconnectAttempts, isConnecting, shouldReconnect, onError, timers>>
registry == <<orderBookCallbacks, priceCallbacks>>
maker == <<states, refreshTimers, intervals>>
detector == <<config, isRunning, monitoredMarkets, onOpportunity>>
\* what the streaming client's own operations leave alone
engines == <<hasCreds, states, refreshTimers, intervals,
             config, isRunning, monitoredMarkets, onOpportunity, life, ret, opps>>
vars == <<sockets, ws, reconnectAttempts, isConnecting, shouldReconnect,
          orderBookCallbacks, priceCallbacks, onError, timers,
          op, sent, calls, errs, disc, run,
          awaiting, hasCreds, states, refreshTimers, intervals,
          config, isRunning, monitoredMarkets, onOpportunity, life, signals, ret, opps>>

(* ------------------------- JavaScript Map ------------------------------ *)
\* A Map is a sequence of entries [k, v] in insertion order.

MapHas(m, k) == \E i \in 1..Len(m) : m[i].k = k
\* `m.get(k) || []`
MapGet(m, k) == IF MapHas(m, k) THEN m[CHOOSE i \in 1..Len(m) : m[i].k = k].v ELSE <<>>
MapSet(m, k, v) ==
    IF MapHas(m, k)
    THEN [i \in 1..Len(m) |-> IF m[i].k = k THEN [k |-> k, v |-> v] ELSE m[i]]
    ELSE Append(m, [k |-> k, v |-> v])
MapDeleteOne(m, k) == SelectSeq(m, LAMBDA e : e.k # k)
\* `m.get(k)` for a key the map has
MapAt(m, k) == m[CHOOSE i \in 1..Len(m) : m[i].k = k].v
\* `Array.from(m.keys())`
MapKeys(m) == [i \in 1..Len(m) |-> m[i].k]

RECURSIVE NumRegs(_)
NumRegs(m) == IF m = <<>> THEN 0 ELSE Len(Head(m).v) + NumRegs(Tail(m))

(* ------------------------------ numbers -------------------------------- *)

\* parseFloat of a decimal string
RECURSIVE FracValue(_, _)
FracValue(frac, i) ==
    IF i > Len(frac) THEN 0 ELSE frac[i] * (SCALE \div 10^i) + FracValue(frac, i + 1)
parseFloat(str) ==
    (IF str.neg THEN -1 ELSE 1) * (str.int * SCALE + FracValue(str.frac, 1))

\* x.toFixed(digits): x rounded to the nearest multiple of 10^-digits (half
\* away from zero), written with exactly that many fractional digits and
\* with the sign of x
toFixed(x, digits) ==
    LET unit == SCALE \div 10^digits
        abs == IF x < 0 THEN -x ELSE x
        n == (abs + unit \div 2) \div unit
    IN  [neg |-> x < 0,
         int |-> n \div 10^digits,
         frac |-> [i \in 1..digits |-> (n \div 10^(digits - i)) % 10]]

\* x * num / den
Times(x, num, den) == (x \div den) * num + ((x % den) * num) \div den
RECURSIVE GCD(_, _)
GCD(x, y) == IF y = 0 THEN x ELSE GCD(y, x % y)
\* the product x * y of two numbers
Mul(x, y) == LET g == GCD(SCALE, IF y < 0 THEN -y ELSE y)
             IN  Times(x, y \div g, SCALE \div g)
\* Math.min, Math.max
Min(x, y) == IF x <= y THEN x ELSE y
Max(x, y) == IF x >= y THEN x ELSE y

(* ----------------------------- transport ------------------------------- *)

READY == {"CONNECTING", "OPEN", "CLOSING", "CLOSED"}
Live(socks) == {s \in SockIds : socks[s] # "CLOSED"}
\* the slot `new WebSocket(url)` takes: a transport that is CLOSED fires no
\* further event, so its slot is reused
FreeSock == CHOOSE s \in SockIds :
                /\ sockets[s] = "CLOSED"
                /\ \A t \in SockIds : t < s => sockets[t] # "CLOSED"
\* WebSocket.close(): a transport not yet closed starts its closing handshake
SockClose(socks, s) ==
    IF socks[s] \in {"CONNECTING", "OPEN"} THEN [socks EXCEPT ![s] = "CLOSING"] ELSE socks

\* `this.ws?.readyState === WebSocket.OPEN`
ReadyOpen(w, socks) == w # NULL /\ socks[w] = "OPEN"
isConnected == ReadyOpen(ws, sockets)

(* ------------------------- private methods ----------------------------- *)

SubscribeFrame(w, assetIds, type) ==
    [sock |-> w, type |-> "subscribe", channel |-> type, assets_ids |-> assetIds]
UnsubscribeFrame(w, assetIds) ==
    [sock |-> w, type |-> "unsubscribe", channel |-> UNDEF, assets_ids |-> assetIds]

\* the frames sendSubscription writes, given this.ws and the ready states
sendSubscription(w, socks, assetIds, type) ==
    IF ~ReadyOpen(w, socks) THEN <<>> ELSE <<SubscribeFrame(w, assetIds, type)>>

\* the frames resubscribeAll writes
resubscribeAll(w, socks, obc, pc) ==
    LET bookAssets == MapKeys(obc)
        priceAssets == MapKeys(pc)
    IN  (IF Len(bookAssets) > 0 THEN sendSubscription(w, socks, bookAssets, "book") ELSE <<>>)
        \o
        (IF Len(priceAssets) > 0 THEN sendSubscription(w, socks, priceAssets, "price") ELSE <<>>)

\* attemptReconnect that starts counting again when the ceiling is reached
attemptReconnect_startsOver(sr, ra, tm, oe) ==
    IF ~sr
    THEN [reconnectAttempts |-> ra, timers |-> tm, errs |-> <<>>]
    ELSE IF ra >= MaxReconnectAttempts
    THEN [reconnectAttempts |-> 1, timers |-> tm + 1,
          errs |-> IF oe THEN <<"Max reconnection attempts reached">> ELSE <<>>]
    ELSE [reconnectAttempts |-> ra + 1, timers |-> tm + 1, errs |-> <<>>]

\* attemptReconnect: the new counter, the new number of pending timers and
\* the errors handed to this.onError
attemptReconnect(sr, ra, tm, oe) ==
    IF ~sr
    THEN [reconnectAttempts |-> ra, timers |-> tm, errs |-> <<>>]
    ELSE IF ra >= MaxReconnectAttempts
    THEN [reconnectAttempts |-> ra, timers |-> tm,
          errs |-> IF oe THEN <<"Max reconnection attempts reached">> ELSE <<>>]
    ELSE [reconnectAttempts |-> ra + 1, timers |-> tm + 1, errs |-> <<>>]

parseOrderBook(message) ==
    LET data == message.data[1]
    IN  [market |-> IF message.market # <<>> THEN message.market[1] ELSE "",
         asset_id |-> message.asset_id,
         bids |-> IF data.bids # <<>> THEN data.bids[1] ELSE <<>>,
         asks |-> IF data.asks # <<>> THEN data.asks[1] ELSE <<>>,
         timestamp |-> IF data.timestamp # <<>> THEN data.timestamp[1] ELSE NOW]

\* the callbacks a frame is dispatched to, in order, with their arguments
Targets(data, obc, pc) ==
    IF data = GARBAGE THEN <<>>
    ELSE IF data.type = "book" /\ data.data # <<>>
    THEN LET callbacks == MapGet(obc, data.asset_id)
         IN  [i \in 1..Len(callbacks) |->
                 [cb |-> callbacks[i], kind |-> "book", arg |-> <<parseOrderBook(data)>>]]
    ELSE IF data.type = "price_change" /\ data.data # <<>>
    THEN LET callbacks == MapGet(pc, data.asset_id)
         IN  [i \in 1..Len(callbacks) |->
                 [cb |-> callbacks[i], kind |-> "price",
                  arg |-> <<data.asset_id, data.data[1].price>>]]
    ELSE <<>>

\* handleMessage that catches inside the loops and goes on with the next
\* callback
handleMessage_continues(data, obc, pc, thr) ==
    Targets(data, obc, pc)

\* handleMessage: the callback invocations made for a frame when the thr-th
\* callback throws (thr = 0: none throws); the exception leaves the loop and
\* is caught and logged
handleMessage(data, obc, pc, thr) ==
    LET all == Targets(data, obc, pc)
    IN  IF thr = 0 THEN all ELSE SubSeq(all, 1, thr)

(* ---------------------------- market maker ----------------------------- *)

\* DEFAULT_CONFIG of the market maker
MakerConfig == [spread |-> Num(2, 100),
                orderSize |-> Dec(10, <<>>),
                maxPosition |-> Dec(100, <<>>)]
\* the 0.001 of calculateQuotes
Tick == Num(1, 1000)

\* the callback MarketMaker.start registers for assetId
MakerHandler(assetId) == "mm_" \o assetId
MakerHandlers == {MakerHandler(a) : a \in Assets}
HandlerAsset(cb) == CHOOSE a \in Assets : MakerHandler(a) = cb

\* the state entry start() creates
NewState(assetId, marketId) ==
    [assetId |-> assetId, marketId |-> marketId, currentBid |-> <<>>,
     currentAsk |-> <<>>, position |-> 0, isRunning |-> TRUE]

\* calculateQuotes that quotes the candidate prices without keeping them
\* outside the best of book
calculateQuotes_candidates(orderBook) ==
    IF Len(orderBook.bids) = 0 \/ Len(orderBook.asks) = 0 THEN <<>>
    ELSE LET bestBid == parseFloat(orderBook.bids[1].price)
             bestAsk == parseFloat(orderBook.asks[1].price)
             midPrice == (bestBid + bestAsk) \div 2
             halfSpread == MakerConfig.spread \div 2
             ourBid == Mul(midPrice, SCALE - halfSpread)
             ourAsk == Mul(midPrice, SCALE + halfSpread)
         IN  <<[bid |-> toFixed(ourBid, 4), ask |-> toFixed(ourAsk, 4)]>>

\* calculateQuotes: <<>> for null, <<quotes>> otherwise
calculateQuotes(orderBook) ==
    IF Len(orderBook.bids) = 0 \/ Len(orderBook.asks) = 0 THEN <<>>
    ELSE LET bestBid == parseFloat(orderBook.bids[1].price)
             bestAsk == parseFloat(orderBook.asks[1].price)
             midPrice == (bestBid + bestAsk) \div 2
             halfSpread == MakerConfig.spread \div 2
             ourBid == Mul(midPrice, SCALE - halfSpread)
             ourAsk == Mul(midPrice, SCALE + halfSpread)
             finalBid == Min(ourBid, bestBid - Tick)
             finalAsk == Max(ourAsk, bestAsk + Tick)
         IN  <<[bid |-> toFixed(finalBid, 4), ask |-> toFixed(finalAsk, 4)]>>

\* generateSignals whose SELL branch is the else of its BUY branch
generateSignals_eitherOr(sts, assetId, orderBook) ==
    IF ~MapHas(sts, assetId) THEN <<>>
    ELSE LET state == MapAt(sts, assetId)
             quotes == calculateQuotes(orderBook)
             maxPosition == parseFloat(MakerConfig.maxPosition)
             Signal(action, price, reason) ==
                 [market |-> state.marketId, asset_id |-> assetId, action |-> action,
                  side |-> "YES", price |-> price, size |-> MakerConfig.orderSize,
                  reason |-> reason]
         IN  IF ~state.isRunning \/ quotes = <<>> THEN <<>>
             ELSE IF state.position < maxPosition
             THEN <<Signal("BUY", quotes[1].bid, "Market making - providing bid liquidity")>>
             ELSE IF state.position > -maxPosition
             THEN <<Signal("SELL", quotes[1].ask, "Market making - providing ask liquidity")>>
             ELSE <<>>

\* generateSignals on the state map sts
generateSignals(sts, assetId, orderBook) ==
    IF ~MapHas(sts, assetId) THEN <<>>
    ELSE LET state == MapAt(sts, assetId)
             quotes == calculateQuotes(orderBook)
             maxPosition == parseFloat(MakerConfig.maxPosition)
             Signal(action, price, reason) ==
                 [market |-> state.marketId, asset_id |-> assetId, action |-> action,
                  side |-> "YES", price |-> price, size |-> MakerConfig.orderSize,
                  reason |-> reason]
         IN  IF ~state.isRunning \/ quotes = <<>> THEN <<>>
             ELSE (IF state.position < maxPosition
                   THEN <<Signal("BUY", quotes[1].bid,
                                 "Market making - providing bid liquidity")>>
                   ELSE <<>>)
                  \o
                  (IF state.position > -maxPosition
                   THEN <<Signal("SELL", quotes[1].ask,
                                 "Market making - providing ask liquidity")>>
                   ELSE <<>>)

\* handleOrderBookUpdate: the signals it logs
handleOrderBookUpdate(sts, assetId, orderBook) ==
    IF ~MapHas(sts, assetId) \/ ~MapAt(sts, assetId).isRunning THEN <<>>
    ELSE generateSignals(sts, assetId, orderBook)

\* the signals logged by the market maker's callbacks among the invocations cs
RECURSIVE MakerSignals(_, _)
MakerSignals(sts, cs) ==
    IF cs = <<>> THEN <<>>
    ELSE (IF Head(cs).cb \in MakerHandlers /\ Head(cs).kind = "book"
          THEN handleOrderBookUpdate(sts, HandlerAsset(Head(cs).cb), Head(cs).arg[1])
          ELSE <<>>)
         \o MakerSignals(sts, Tail(cs))

(* -------------------------- arbitrage detector ------------------------- *)

\* DEFAULT_CONFIG of the arbitrage detector
ArbitrageConfig == [minSpread |-> Num(1, 100),
                    maxSlippage |-> Num(5, 1000),
                    orderSize |-> Dec(50, <<>>)]
\* the configurations a detector is constructed with
Configs == {ArbitrageConfig, [ArbitrageConfig EXCEPT !.maxSlippage = Num(1, 2)]}

\* the callback ArbitrageDetector.start registers
ArbHandler == "arb"
\* what parseFloat returns for text that is not a number
NaN == -(2^30)
\* Date.now() at an update (0: never updated)
UPDATED == 1

\* the tracking entry of a start() that fills in the asset ids of the market
NewMarket_withAssets(marketId) ==
    [marketId |-> marketId, yesAssetId |-> "a1", noAssetId |-> "a2",
     yesPrice |-> 0, noPrice |-> 0, lastUpdate |-> 0]

\* the tracking entry start() creates
NewMarket(marketId) ==
    [marketId |-> marketId, yesAssetId |-> "", noAssetId |-> "",
     yesPrice |-> 0, noPrice |-> 0, lastUpdate |-> 0]

\* checkYesNoArbitrage that takes a zero price for a quote
checkYesNoArbitrage_zeroIsPrice(cfg, market) ==
    IF FALSE THEN <<>>
    ELSE IF market.yesPrice = NaN \/ market.noPrice = NaN THEN <<>>
    ELSE LET totalPrice == market.yesPrice + market.noPrice
             spread == SCALE - totalPrice
             expectedProfit == Mul(spread, parseFloat(cfg.orderSize))
                               - Mul(cfg.maxSlippage, 2 * SCALE)
             Signal(assetId, side, price) ==
                 [market |-> market.marketId, asset_id |-> assetId, action |-> "BUY",
                  side |-> side, price |-> toFixed(price, 4), size |-> cfg.orderSize,
                  reason |-> <<"YES/NO arbitrage - total price", toFixed(totalPrice, 4)>>]
         IN  IF spread > cfg.minSpread /\ expectedProfit > 0
             THEN <<[markets |-> <<market.marketId>>,
                     spread |-> spread,
                     expectedProfit |-> expectedProfit,
                     signals |-> <<Signal(market.yesAssetId, "YES", market.yesPrice),
                                   Signal(market.noAssetId, "NO", market.noPrice)>>]>>
             ELSE <<>>

\* checkYesNoArbitrage that takes the total price for the spread
checkYesNoArbitrage_totalAsSpread(cfg, market) ==
    IF market.yesPrice = 0 \/ market.noPrice = 0 THEN <<>>
    ELSE IF market.yesPrice = NaN \/ market.noPrice = NaN THEN <<>>
    ELSE LET totalPrice == market.yesPrice + market.noPrice
             spread == totalPrice
             expectedProfit == Mul(spread, parseFloat(cfg.orderSize))
                               - Mul(cfg.maxSlippage, 2 * SCALE)
             Signal(assetId, side, price) ==
                 [market |-> market.marketId, asset_id |-> assetId, action |-> "BUY",
                  side |-> side, price |-> toFixed(price, 4), size |-> cfg.orderSize,
                  reason |-> <<"YES/NO arbitrage - total price", toFixed(totalPrice, 4)>>]
         IN  IF spread > cfg.minSpread /\ expectedProfit > 0
             THEN <<[markets |-> <<market.marketId>>,
                     spread |-> spread,
                     expectedProfit |-> expectedProfit,
                     signals |-> <<Signal(market.yesAssetId, "YES", market.yesPrice),
                                   Signal(market.noAssetId, "NO", market.noPrice)>>]>>
             ELSE <<>>

\* checkYesNoArbitrage that charges the slippage of one leg only
checkYesNoArbitrage_oneLeg(cfg, market) ==
    IF market.yesPrice = 0 \/ market.noPrice = 0 THEN <<>>
    ELSE IF market.yesPrice = NaN \/ market.noPrice = NaN THEN <<>>
    ELSE LET totalPrice == market.yesPrice + market.noPrice
             spread == SCALE - totalPrice
             expectedProfit == Mul(spread, parseFloat(cfg.orderSize))
                               - cfg.maxSlippage
             Signal(assetId, side, price) ==
                 [market |-> market.marketId, asset_id |-> assetId, action |-> "BUY",
                  side |-> side, price |-> toFixed(price, 4), size |-> cfg.orderSize,
                  reason |-> <<"YES/NO arbitrage - total price", toFixed(totalPrice, 4)>>]
         IN  IF spread > cfg.minSpread /\ expectedProfit > 0
             THEN <<[markets |-> <<market.marketId>>,
                     spread |-> spread,
                     expectedProfit |-> expectedProfit,
                     signals |-> <<Signal(market.yesAssetId, "YES", market.yesPrice),
                                   Signal(market.noAssetId, "NO", market.noPrice)>>]>>
             ELSE <<>>

\* checkYesNoArbitrage: <<>> for null, <<opportunity>> otherwise
checkYesNoArbitrage(cfg, market) ==
    IF market.yesPrice = 0 \/ market.noPrice = 0 THEN <<>>
    ELSE IF market.yesPrice = NaN \/ market.noPrice = NaN THEN <<>>
    ELSE LET totalPrice == market.yesPrice + market.noPrice
             spread == SCALE - totalPrice
             expectedProfit == Mul(spread, parseFloat(cfg.orderSize))
                               - Mul(cfg.maxSlippage, 2 * SCALE)
             Signal(assetId, side, price) ==
                 [market |-> market.marketId, asset_id |-> assetId, action |-> "BUY",
                  side |-> side, price |-> toFixed(price, 4), size |-> cfg.orderSize,
                  reason |-> <<"YES/NO arbitrage - total price", toFixed(totalPrice, 4)>>]
         IN  IF spread > cfg.minSpread /\ expectedProfit > 0
             THEN <<[markets |-> <<market.marketId>>,
                     spread |-> spread,
                     expectedProfit |-> expectedProfit,
                     signals |-> <<Signal(market.yesAssetId, "YES", market.yesPrice),
                                   Signal(market.noAssetId, "NO", market.noPrice)>>]>>
             ELSE <<>>

\* scanForOpportunities over the tracked markets mm
RECURSIVE scanForOpportunities(_, _)
scanForOpportunities(cfg, mm) ==
    IF mm = <<>> THEN <<>>
    ELSE checkYesNoArbitrage(cfg, Head(mm).v) \o scanForOpportunities(cfg, Tail(mm))

\* checkAndNotify: the opportunities handed to this.onOpportunity
checkAndNotify(cfg, running, onOpp, market) ==
    IF ~running \/ ~onOpp THEN <<>> ELSE checkYesNoArbitrage(cfg, market)

\* the asset ids start() and stop() collect from the tracked markets
RECURSIVE AllAssetIds(_)
AllAssetIds(mm) ==
    IF mm = <<>> THEN <<>>
    ELSE SelectSeq(<<Head(mm).v.yesAssetId, Head(mm).v.noAssetId>>, LAMBDA id : id # "")
         \o AllAssetIds(Tail(mm))

\* the loop of start() over marketIds
RECURSIVE AddMarkets(_, _)
AddMarkets(mm, marketIds) ==
    IF marketIds = <<>> THEN mm
    ELSE AddMarkets(MapSet(mm, Head(marketIds), NewMarket(Head(marketIds))), Tail(marketIds))

\* the entry handlePriceUpdate changes: the first tracked market with assetId
\* as one of its legs (0: none)
OwnerOf(mm, assetId) ==
    IF \E i \in 1..Len(mm) : assetId \in {mm[i].v.yesAssetId, mm[i].v.noAssetId}
    THEN CHOOSE i \in 1..Len(mm) :
            /\ assetId \in {mm[i].v.yesAssetId, mm[i].v.noAssetId}
            /\ \A j \in 1..(i - 1) : assetId \notin {mm[j].v.yesAssetId, mm[j].v.noAssetId}
    ELSE 0

\* handlePriceUpdate(assetId, price): the tracked markets afterwards
handlePriceUpdate(mm, assetId, price) ==
    LET i == OwnerOf(mm, assetId)
    IN  IF i = 0 THEN mm
        ELSE IF mm[i].v.yesAssetId = assetId
        THEN [mm EXCEPT ![i].v.yesPrice = price, ![i].v.lastUpdate = UPDATED]
        ELSE [mm EXCEPT ![i].v.noPrice = price, ![i].v.lastUpdate = UPDATED]

\* the callback of start(): the tracked markets and the opportunities
\* notified after the price callbacks among the invocations cs have run
RECURSIVE ArbDispatch(_, _, _, _, _)
ArbDispatch(cfg, running, onOpp, mm, cs) ==
    IF cs = <<>> THEN [markets |-> mm, opps |-> <<>>]
    ELSE IF Head(cs).cb = ArbHandler /\ Head(cs).kind = "price"
    THEN LET assetId == Head(cs).arg[1]
             price == IF Head(cs).arg[2] = <<>> THEN NaN ELSE parseFloat(Head(cs).arg[2][1])
             after == handlePriceUpdate(mm, assetId, price)
             i == OwnerOf(mm, assetId)
             told == IF i = 0 THEN <<>> ELSE checkAndNotify(cfg, running, onOpp, after[i].v)
             rest == ArbDispatch(cfg, running, onOpp, after, Tail(cs))
         IN  [markets |-> rest.markets, opps |-> told \o rest.opps]
    ELSE ArbDispatch(cfg, running, onOpp, mm, Tail(cs))

(* --------------------------- continuations ----------------------------- *)
\* A continuation is [who, asset, sock]: the async method, its asset and the
\* transport whose open resolves the promise it awaits; sock = NULL when the
\* promise is resolved and the continuation is queued as a microtask.

Continuation(who, asset, sock) == [who |-> who, asset |-> asset, sock |-> sock]
\* the microtask that runs next
Runnable(i) ==
    /\ i \in 1..Len(awaiting)
    /\ awaiting[i].sock = NULL
    /\ \A j \in 1..(i - 1) : awaiting[j].sock # NULL
\* a task (a timer or a transport event) starts when no microtask is queued
TaskBoundary == \A i \in 1..Len(awaiting) : awaiting[i].sock # NULL
\* resolve() of the promise connect() returned for transport s
resolve(aw, s) ==
    [i \in 1..Len(aw) |-> IF aw[i].sock = s THEN [aw[i] EXCEPT !.sock = NULL] ELSE aw[i]]
\* transport s closed: the promise connect() returned for it never settles
Abandon(aw, s) == SelectSeq(aw, LAMBDA c : c.sock # s)
RemoveAt(q, i) == SubSeq(q, 1, i - 1) \o SubSeq(q, i + 1, Len(q))

(* --------------------------- history ----------------------------------- *)

NOFRAME == [type |-> "none", asset_id |-> UNDEF, market |-> <<>>, data |-> <<>>]
NoOp == [name |-> "init", ids |-> <<>>, cb |-> "", frame |-> NOFRAME,
         att |-> 0, removed |-> 0, created |-> FALSE, threw |-> FALSE, arg |-> <<>>]
Did(name) == [NoOp EXCEPT !.name = name]
Range(q) == {q[i] : i \in 1..Len(q)}
RunOff == [on |-> FALSE, fails |-> 0, errs |-> 0]
Quiet == sent' = <<>> /\ calls' = <<>> /\ errs' = <<>>

(* ----------------------------- Init ------------------------------------ *)

Init ==
    /\ sockets = [s \in SockIds |-> "CLOSED"]
    /\ ws = NULL
    /\ reconnectAttempts = 0
    /\ isConnecting = FALSE
    /\ shouldReconnect = TRUE
    /\ orderBookCallbacks = <<>>
    /\ priceCallbacks = <<>>
    /\ onError = FALSE
    /\ timers = 0
    /\ op = NoOp
    /\ sent = <<>>
    /\ calls = <<>>
    /\ errs = <<>>
    /\ disc = FALSE
    /\ run = RunOff
    /\ awaiting = <<>>
    /\ hasCreds = FALSE
    /\ states = <<>>
    /\ refreshTimers = <<>>
    /\ intervals = [i \in TimerIds |-> ""]
    /\ config = ArbitrageConfig
    /\ isRunning = FALSE
    /\ monitoredMarkets = <<>>
    /\ onOpportunity = FALSE
    /\ life = [a \in Assets |-> "fresh"]
    /\ signals = <<>>
    /\ ret = <<>>
    /\ opps = <<>>

(* ------------------------ connect / disconnect -------------------------- *)

\* connect() creates a transport
Connects == ~isConnected /\ ~isConnecting

\* the body of connect(), run by a caller or by the reconnect timer
connect ==
    IF isConnected \/ isConnecting
    THEN UNCHANGED <<sockets, ws, isConnecting, shouldReconnect>>
    ELSE /\ isConnecting' = TRUE
         /\ shouldReconnect' = TRUE
         /\ sockets' = [sockets EXCEPT ![FreeSock] = "CONNECTING"]
         /\ ws' = FreeSock

\* a caller invokes connect()
Connect(maxLive) ==
    /\ Connects => Cardinality(Live(sockets)) < maxLive
    /\ connect
    /\ UNCHANGED <<reconnectAttempts, onError, timers, registry>>
    /\ op' = [Did("connect") EXCEPT !.created = Connects]
    /\ Quiet
    /\ UNCHANGED <<engines, awaiting, signals>>
    /\ disc' = FALSE
    /\ run' = IF ~Connects THEN run
              ELSE IF reconnectAttempts = 0 /\ timers = 0 /\ onError /\ Live(sockets) = {}
              THEN [on |-> TRUE, fails |-> 0, errs |-> 0]
              ELSE RunOff

\* the setTimeout callback of attemptReconnect fires
ReconnectTimer(maxLive) ==
    /\ timers > 0
    /\ TaskBoundary
    /\ Connects => Cardinality(Live(sockets)) < maxLive
    /\ timers' = timers - 1
    /\ connect
    /\ UNCHANGED <<reconnectAttempts, onError, registry>>
    /\ op' = [Did("timer") EXCEPT !.created = Connects]
    /\ Quiet
    /\ UNCHANGED <<engines, awaiting, signals>>
    /\ UNCHANGED <<disc, run>>

disconnect ==
    /\ shouldReconnect' = FALSE
    /\ sockets' = IF ws # NULL THEN SockClose(sockets, ws) ELSE sockets
    /\ ws' = NULL
    /\ UNCHANGED <<reconnectAttempts, isConnecting, onError, timers, registry>>

Disconnect ==
    /\ disconnect
    /\ op' = Did("disconnect")
    /\ Quiet
    /\ UNCHANGED <<engines, awaiting, signals>>
    /\ disc' = TRUE
    /\ run' = RunOff

\* setErrorHandler(callback); replacing a callback by another is not told apart
setErrorHandler ==
    /\ ~onError
    /\ onError' = TRUE
    /\ UNCHANGED <<sockets, ws, reconnectAttempts, isConnecting, shouldReconnect, timers, registry>>
    /\ op' = Did("setErrorHandler")
    /\ Quiet
    /\ UNCHANGED <<engines, awaiting, signals>>
    /\ UNCHANGED <<disc, run>>

(* -------------------------- transport events ---------------------------- *)

\* onopen without the reset of the reconnect counter
onopen_keepsCounter(s) ==
    /\ sockets' = [sockets EXCEPT ![s] = "OPEN"]
    /\ isConnecting' = FALSE
    /\ reconnectAttempts' = reconnectAttempts
    /\ sent' = resubscribeAll(ws, sockets', orderBookCallbacks, priceCallbacks)
    /\ awaiting' = resolve(awaiting, s)
    /\ UNCHANGED <<ws, shouldReconnect, onError, timers, registry>>

\* ws.onopen of transport s
onopen(s) ==
    /\ sockets' = [sockets EXCEPT ![s] = "OPEN"]
    /\ isConnecting' = FALSE
    /\ reconnectAttempts' = 0
    /\ sent' = resubscribeAll(ws, sockets', orderBookCallbacks, priceCallbacks)
    /\ awaiting' = resolve(awaiting, s)
    /\ UNCHANGED <<ws, shouldReconnect, onError, timers, registry>>

TransportOpen(s) ==
    /\ sockets[s] = "CONNECTING"
    /\ TaskBoundary
    /\ onopen(s)
    /\ op' = [Did("open") EXCEPT !.att = reconnectAttempts]
    /\ UNCHANGED <<engines, signals>>
    /\ calls' = <<>>
    /\ errs' = <<>>
    /\ disc' = disc
    /\ run' = RunOff

\* ws.onclose of transport s, after `before` was handed to this.onError in
\* the same task
onclose(s, before) ==
    LET r == attemptReconnect(shouldReconnect, reconnectAttempts, timers, onError)
    IN  /\ r.timers <= MaxTimers
        /\ sockets' = [sockets EXCEPT ![s] = "CLOSED"]
        /\ isConnecting' = FALSE
        /\ reconnectAttempts' = r.reconnectAttempts
        /\ timers' = r.timers
        /\ errs' = before \o r.errs
        /\ awaiting' = Abandon(awaiting, s)
        /\ UNCHANGED <<ws, shouldReconnect, onError, registry>>

\* the errors ws.onerror hands to this.onError
onerror(oe) == IF oe THEN <<"WebSocket error">> ELSE <<>>

\* transport s fails (while connecting, open or closing): its error event
\* and then its close event are fired
TransportFail(s) ==
    /\ sockets[s] # "CLOSED"
    /\ TaskBoundary
    /\ onclose(s, onerror(onError))
    /\ op' = Did("fail")
    /\ UNCHANGED <<engines, signals>>
    /\ sent' = <<>>
    /\ calls' = <<>>
    /\ disc' = disc
    /\ run' = IF run.on
              THEN [on |-> TRUE, fails |-> run.fails + 1, errs |-> run.errs + Len(errs')]
              ELSE run

\* transport s closes cleanly: the server closed an open connection, or the
\* closing handshake started by close() completed
TransportClose(s) ==
    /\ sockets[s] \in {"OPEN", "CLOSING"}
    /\ TaskBoundary
    /\ onclose(s, <<>>)
    /\ op' = Did("close")
    /\ UNCHANGED <<engines, signals>>
    /\ sent' = <<>>
    /\ calls' = <<>>
    /\ disc' = disc
    /\ run' = RunOff

\* onmessage whose handleMessage treats a frame it cannot decode as fatal: it
\* closes the transport, whose close event then runs attemptReconnect
TransportMessage_closesOnGarbage(s, data, thr) ==
    LET r == attemptReconnect(shouldReconnect, reconnectAttempts, timers, onError)
    IN  /\ sockets[s] = "OPEN"
        /\ TaskBoundary
        /\ calls' = handleMessage(data, orderBookCallbacks, priceCallbacks, thr)
        /\ signals' = MakerSignals(states, calls')
        /\ LET d == ArbDispatch(config, isRunning, onOpportunity, monitoredMarkets, calls')
           IN  monitoredMarkets' = d.markets /\ opps' = d.opps
        /\ UNCHANGED <<hasCreds, maker, config, isRunning, onOpportunity, life, ret, awaiting>>
        /\ IF data = GARBAGE
           THEN /\ r.timers <= MaxTimers
                /\ sockets' = [sockets EXCEPT ![s] = "CLOSED"]
                /\ reconnectAttempts' = r.reconnectAttempts
                /\ timers' = r.timers
                /\ errs' = r.errs
                /\ UNCHANGED <<ws, isConnecting, shouldReconnect, onError, registry>>
           ELSE /\ errs' = <<>>
                /\ UNCHANGED <<conn, registry>>
        /\ op' = [Did("message") EXCEPT !.frame = data, !.threw = (thr # 0)]
        /\ sent' = <<>>
        /\ UNCHANGED <<disc, run>>

\* ws.onmessage of transport s: a frame arrives, the thr-th callback throws
TransportMessage(s, data, thr) ==
    /\ sockets[s] = "OPEN"
    /\ TaskBoundary
    /\ calls' = handleMessage(data, orderBookCallbacks, priceCallbacks, thr)
    /\ signals' = MakerSignals(states, calls')
    /\ LET r == ArbDispatch(config, isRunning, onOpportunity, monitoredMarkets, calls')
       IN  monitoredMarkets' = r.markets /\ opps' = r.opps
    /\ UNCHANGED <<hasCreds, maker, config, isRunning, onOpportunity, life, ret, awaiting>>
    /\ UNCHANGED <<conn, registry>>
    /\ op' = [Did("message") EXCEPT !.frame = data, !.threw = (thr # 0)]
    /\ sent' = <<>>
    /\ errs' = <<>>
    /\ UNCHANGED <<disc, run>>

(* --------------------------- subscriptions ------------------------------ *)

\* the loop of subscribeOrderBook / subscribePrice over assetIds
RECURSIVE AddCallbacks(_, _, _)
AddCallbacks(m, assetIds, callback) ==
    IF assetIds = <<>> THEN m
    ELSE LET assetId == Head(assetIds)
             callbacks == Append(MapGet(m, assetId), callback)
         IN  AddCallbacks(MapSet(m, assetId, callbacks), Tail(assetIds), callback)

\* the loop of unsubscribe over assetIds, on one of the two maps
RECURSIVE DeleteAll(_, _)
DeleteAll(m, assetIds) ==
    IF assetIds = <<>> THEN m
    ELSE DeleteAll(MapDeleteOne(m, Head(assetIds)), Tail(assetIds))

WithinBounds(obc, pc, maxRegs) == NumRegs(obc) + NumRegs(pc) <= maxRegs

subscribeOrderBook(assetIds, callback) ==
    /\ orderBookCallbacks' = AddCallbacks(orderBookCallbacks, assetIds, callback)
    /\ sent' = IF isConnected THEN sendSubscription(ws, sockets, assetIds, "book") ELSE <<>>
    /\ UNCHANGED <<conn, priceCallbacks>>

SubscribeOrderBook(maxRegs, assetIds, callback) ==
    /\ subscribeOrderBook(assetIds, callback)
    /\ WithinBounds(orderBookCallbacks', priceCallbacks', maxRegs)
    /\ op' = [Did("subscribeOrderBook") EXCEPT !.ids = assetIds, !.cb = callback]
    /\ UNCHANGED <<engines, awaiting, signals>>
    /\ calls' = <<>>
    /\ errs' = <<>>
    /\ UNCHANGED <<disc, run>>

subscribePrice(assetIds, callback) ==
    /\ priceCallbacks' = AddCallbacks(priceCallbacks, assetIds, callback)
    /\ sent' = IF isConnected THEN sendSubscription(ws, sockets, assetIds, "price") ELSE <<>>
    /\ UNCHANGED <<conn, orderBookCallbacks>>

SubscribePrice(maxRegs, assetIds, callback) ==
    /\ subscribePrice(assetIds, callback)
    /\ WithinBounds(orderBookCallbacks', priceCallbacks', maxRegs)
    /\ op' = [Did("subscribePrice") EXCEPT !.ids = assetIds, !.cb = callback]
    /\ UNCHANGED <<engines, awaiting, signals>>
    /\ calls' = <<>>
    /\ errs' = <<>>
    /\ UNCHANGED <<disc, run>>

\* unsubscribe that forgets the price callbacks
unsubscribe_bookOnly(assetIds) ==
    /\ orderBookCallbacks' = DeleteAll(orderBookCallbacks, assetIds)
    /\ priceCallbacks' = priceCallbacks
    /\ sent' = IF isConnected THEN <<UnsubscribeFrame(ws, assetIds)>> ELSE <<>>
    /\ UNCHANGED conn

\* unsubscribe that clears the two maps
unsubscribe_clearsAll(assetIds) ==
    /\ orderBookCallbacks' = <<>>
    /\ priceCallbacks' = <<>>
    /\ sent' = IF isConnected THEN <<UnsubscribeFrame(ws, assetIds)>> ELSE <<>>
    /\ UNCHANGED conn

unsubscribe(assetIds) ==
    /\ orderBookCallbacks' = DeleteAll(orderBookCallbacks, assetIds)
    /\ priceCallbacks' = DeleteAll(priceCallbacks, assetIds)
    /\ sent' = IF isConnected THEN <<UnsubscribeFrame(ws, assetIds)>> ELSE <<>>
    /\ UNCHANGED conn

Unsubscribe(assetIds) ==
    /\ unsubscribe(assetIds)
    /\ UNCHANGED <<engines, awaiting, signals>>
    /\ op' = [Did("unsubscribe") EXCEPT
                 !.ids = assetIds,
                 !.removed = NumRegs(orderBookCallbacks) + NumRegs(priceCallbacks)
                             - NumRegs(orderBookCallbacks') - NumRegs(priceCallbacks')]
    /\ calls' = <<>>
    /\ errs' = <<>>
    /\ UNCHANGED <<disc, run>>

(* ---------------------- market maker operations ------------------------ *)

\* the timer setInterval creates
FreeTimer == CHOOSE i \in TimerIds :
                /\ intervals[i] = ""
                /\ \A j \in TimerIds : j < i => intervals[j] # ""

\* the end of start(): subscribe to the order book and start the refresh timer
startSetup(assetId) ==
    /\ \E i \in TimerIds : intervals[i] = ""
    /\ subscribeOrderBook(<<assetId>>, MakerHandler(assetId))
    /\ intervals' = [intervals EXCEPT ![FreeTimer] = assetId]
    /\ refreshTimers' = MapSet(refreshTimers, assetId, FreeTimer)

\* cancelOrders on the state map sts
cancelOrders(sts, assetId) ==
    IF ~MapHas(sts, assetId) THEN sts
    ELSE MapSet(sts, assetId,
                [MapAt(sts, assetId) EXCEPT !.currentBid = <<>>, !.currentAsk = <<>>])

\* start() without the check of the credentials
start_noCredentials(maxLive, assetId, marketId) ==
    IF MapHas(states, assetId)
    THEN /\ UNCHANGED <<conn, registry, maker, awaiting, disc, run>>
         /\ sent' = <<>>
    ELSE /\ states' = MapSet(states, assetId, NewState(assetId, marketId))
         /\ IF isConnected
            THEN /\ startSetup(assetId)
                 /\ UNCHANGED <<awaiting, disc, run>>
            ELSE /\ Connects => Cardinality(Live(sockets)) < maxLive
                 /\ Len(awaiting) < MaxAwaiting
                 /\ connect
                 /\ awaiting' = Append(awaiting,
                        Continuation("start", assetId, IF isConnecting THEN NULL ELSE FreeSock))
                 /\ sent' = <<>>
                 /\ disc' = FALSE
                 /\ run' = IF Connects THEN RunOff ELSE run
                 /\ UNCHANGED <<reconnectAttempts, onError, timers, registry,
                                refreshTimers, intervals>>

\* start() without the look-up of the asset in this.states
start_noLookup(maxLive, assetId, marketId) ==
    IF ~hasCreds
    THEN /\ UNCHANGED <<conn, registry, maker, awaiting, disc, run>>
         /\ sent' = <<>>
    ELSE /\ states' = MapSet(states, assetId, NewState(assetId, marketId))
         /\ IF isConnected
            THEN /\ startSetup(assetId)
                 /\ UNCHANGED <<awaiting, disc, run>>
            ELSE /\ Connects => Cardinality(Live(sockets)) < maxLive
                 /\ Len(awaiting) < MaxAwaiting
                 /\ connect
                 /\ awaiting' = Append(awaiting,
                        Continuation("start", assetId, IF isConnecting THEN NULL ELSE FreeSock))
                 /\ sent' = <<>>
                 /\ disc' = FALSE
                 /\ run' = IF Connects THEN RunOff ELSE run
                 /\ UNCHANGED <<reconnectAttempts, onError, timers, registry,
                                refreshTimers, intervals>>

\* what start() does up to its await, or to its end when it does not await
start(maxLive, assetId, marketId) ==
    IF ~hasCreds \/ MapHas(states, assetId)
    THEN /\ UNCHANGED <<conn, registry, maker, awaiting, disc, run>>
         /\ sent' = <<>>
    ELSE /\ states' = MapSet(states, assetId, NewState(assetId, marketId))
         /\ IF isConnected
            THEN /\ startSetup(assetId)
                 /\ UNCHANGED <<awaiting, disc, run>>
            ELSE /\ Connects => Cardinality(Live(sockets)) < maxLive
                 /\ Len(awaiting) < MaxAwaiting
                 /\ connect
                 /\ awaiting' = Append(awaiting,
                        Continuation("start", assetId, IF isConnecting THEN NULL ELSE FreeSock))
                 /\ sent' = <<>>
                 /\ disc' = FALSE
                 /\ run' = IF Connects THEN RunOff ELSE run
                 /\ UNCHANGED <<reconnectAttempts, onError, timers, registry,
                                refreshTimers, intervals>>

\* a caller invokes MarketMaker.start(assetId, marketId)
MakerStart(maxLive, maxRegs, assetId, marketId) ==
    /\ start(maxLive, assetId, marketId)
    /\ WithinBounds(orderBookCallbacks', priceCallbacks', maxRegs)
    /\ op' = [Did("start") EXCEPT
                 !.ids = <<assetId>>,
                 !.threw = ~hasCreds,
                 !.created = (hasCreds /\ ~MapHas(states, assetId) /\ Connects)]
    /\ life' = [life EXCEPT ![assetId] = IF @ = "fresh" THEN "fresh" ELSE "restarted"]
    /\ calls' = <<>> /\ errs' = <<>> /\ signals' = <<>> /\ ret' = <<>> /\ opps' = <<>>
    /\ UNCHANGED <<hasCreds, detector>>

\* start() continues after `await this.ws.connect()`
MakerStartResume(maxRegs, i) ==
    /\ Runnable(i)
    /\ awaiting[i].who = "start"
    /\ startSetup(awaiting[i].asset)
    /\ WithinBounds(orderBookCallbacks', priceCallbacks', maxRegs)
    /\ awaiting' = RemoveAt(awaiting, i)
    /\ op' = [Did("startResume") EXCEPT !.ids = <<awaiting[i].asset>>]
    /\ calls' = <<>> /\ errs' = <<>> /\ signals' = <<>> /\ ret' = <<>> /\ opps' = <<>>
    /\ UNCHANGED <<hasCreds, states, detector, life, disc, run>>

\* stop() without the early return for an asset that has no state entry
stop_noLookup(assetId) ==
    /\ Len(awaiting) < MaxAwaiting
    /\ states' = cancelOrders(
           IF MapHas(states, assetId)
           THEN MapSet(states, assetId, [MapAt(states, assetId) EXCEPT !.isRunning = FALSE])
           ELSE states,
           assetId)
    /\ IF MapHas(refreshTimers, assetId)
       THEN /\ intervals' = [intervals EXCEPT ![MapAt(refreshTimers, assetId)] = ""]
            /\ refreshTimers' = MapDeleteOne(refreshTimers, assetId)
       ELSE UNCHANGED <<refreshTimers, intervals>>
    /\ awaiting' = Append(awaiting, Continuation("stop", assetId, NULL))

\* what stop() does up to `await this.cancelOrders(assetId)`
stop(assetId) ==
    IF ~MapHas(states, assetId)
    THEN UNCHANGED <<maker, awaiting>>
    ELSE /\ Len(awaiting) < MaxAwaiting
         /\ states' = cancelOrders(
                MapSet(states, assetId, [MapAt(states, assetId) EXCEPT !.isRunning = FALSE]),
                assetId)
         /\ IF MapHas(refreshTimers, assetId)
            THEN /\ intervals' = [intervals EXCEPT ![MapAt(refreshTimers, assetId)] = ""]
                 /\ refreshTimers' = MapDeleteOne(refreshTimers, assetId)
            ELSE UNCHANGED <<refreshTimers, intervals>>
         /\ awaiting' = Append(awaiting, Continuation("stop", assetId, NULL))

\* a caller invokes MarketMaker.stop(assetId)
MakerStop(assetId) ==
    /\ stop(assetId)
    /\ op' = [Did("stop") EXCEPT !.ids = <<assetId>>]
    /\ life' = [life EXCEPT ![assetId] =
                    IF MapHas(states, assetId) THEN "stopping" ELSE "stopped"]
    /\ Quiet
    /\ signals' = <<>> /\ ret' = <<>> /\ opps' = <<>>
    /\ UNCHANGED <<conn, registry, hasCreds, detector, disc, run>>

\* stop() continues after its await: it unsubscribes and drops the state
MakerStopResume(i) ==
    /\ Runnable(i)
    /\ awaiting[i].who = "stop"
    /\ unsubscribe(<<awaiting[i].asset>>)
    /\ states' = MapDeleteOne(states, awaiting[i].asset)
    /\ awaiting' = RemoveAt(awaiting, i)
    /\ op' = [Did("stopResume") EXCEPT !.ids = <<awaiting[i].asset>>]
    /\ life' = [life EXCEPT ![awaiting[i].asset] = "stopped"]
    /\ calls' = <<>> /\ errs' = <<>> /\ signals' = <<>> /\ ret' = <<>> /\ opps' = <<>>
    /\ UNCHANGED <<hasCreds, refreshTimers, intervals, detector, disc, run>>

\* refreshOrders that places a new bid and a new ask after the cancellation
RefreshTimer_requotes(i) ==
    /\ intervals[i] # ""
    /\ TaskBoundary
    /\ states' = IF MapHas(states, intervals[i]) /\ MapAt(states, intervals[i]).isRunning
                 THEN MapSet(states, intervals[i],
                             [MapAt(states, intervals[i]) EXCEPT
                                 !.currentBid = <<"bid">>, !.currentAsk = <<"ask">>])
                 ELSE states
    /\ op' = [Did("refresh") EXCEPT !.ids = <<intervals[i]>>]
    /\ Quiet
    /\ signals' = <<>> /\ ret' = <<>> /\ opps' = <<>>
    /\ UNCHANGED <<conn, registry, awaiting, hasCreds, refreshTimers, intervals,
                   detector, life, disc, run>>

\* the refresh timer i fires: refreshOrders of its asset
RefreshTimer(i) ==
    /\ intervals[i] # ""
    /\ TaskBoundary
    /\ states' = IF MapHas(states, intervals[i]) /\ MapAt(states, intervals[i]).isRunning
                 THEN cancelOrders(states, intervals[i])
                 ELSE states
    /\ op' = [Did("refresh") EXCEPT !.ids = <<intervals[i]>>]
    /\ Quiet
    /\ signals' = <<>> /\ ret' = <<>> /\ opps' = <<>>
    /\ UNCHANGED <<conn, registry, awaiting, hasCreds, refreshTimers, intervals,
                   detector, life, disc, run>>

\* the trading credentials are configured
ProvideCredentials ==
    /\ ~hasCreds
    /\ hasCreds' = TRUE
    /\ op' = Did("credentials")
    /\ Quiet
    /\ signals' = <<>> /\ ret' = <<>> /\ opps' = <<>>
    /\ UNCHANGED <<conn, registry, awaiting, maker, detector, life, disc, run>>

\* a caller invokes MarketMaker.calculateQuotes(orderBook)
CalculateQuotes(orderBook) ==
    /\ ret' = calculateQuotes(orderBook)
    /\ op' = [Did("calculateQuotes") EXCEPT !.arg = <<orderBook>>]
    /\ Quiet
    /\ signals' = <<>> /\ opps' = <<>>
    /\ UNCHANGED <<conn, registry, awaiting, hasCreds, maker, detector, life, disc, run>>

\* a caller invokes MarketMaker.generateSignals(assetId, orderBook)
GenerateSignals(assetId, orderBook) ==
    /\ ret' = generateSignals(states, assetId, orderBook)
    /\ op' = [Did("generateSignals") EXCEPT !.ids = <<assetId>>, !.arg = <<orderBook>>]
    /\ Quiet
    /\ signals' = <<>> /\ opps' = <<>>
    /\ UNCHANGED <<conn, registry, awaiting, hasCreds, maker, detector, life, disc, run>>

\* a caller stores a position in the state entry getState(assetId) returns
SetPosition(assetId, position) ==
    /\ MapHas(states, assetId)
    /\ MapAt(states, assetId).position # position
    /\ states' = MapSet(states, assetId, [MapAt(states, assetId) EXCEPT !.position = position])
    /\ op' = [Did("setPosition") EXCEPT !.ids = <<assetId>>]
    /\ Quiet
    /\ signals' = <<>> /\ ret' = <<>> /\ opps' = <<>>
    /\ UNCHANGED <<conn, registry, awaiting, hasCreds, refreshTimers, intervals,
                   detector, life, disc, run>>

(* ------------------- arbitrage detector operations ---------------------- *)

\* the end of start(): subscribe to the prices of the known assets
startSubscribe(mm) ==
    IF Len(AllAssetIds(mm)) > 0
    THEN subscribePrice(AllAssetIds(mm), ArbHandler)
    ELSE UNCHANGED <<conn, registry>> /\ sent' = <<>>

\* what ArbitrageDetector.start does up to its await, or to its end when it
\* does not await
arbStart(maxLive, marketIds) ==
    IF isRunning
    THEN /\ UNCHANGED <<conn, registry, isRunning, monitoredMarkets, awaiting, disc, run>>
         /\ sent' = <<>>
    ELSE /\ isRunning' = TRUE
         /\ monitoredMarkets' = AddMarkets(monitoredMarkets, marketIds)
         /\ IF isConnected
            THEN /\ startSubscribe(monitoredMarkets')
                 /\ UNCHANGED <<awaiting, disc, run>>
            ELSE /\ Connects => Cardinality(Live(sockets)) < maxLive
                 /\ Len(awaiting) < MaxAwaiting
                 /\ connect
                 /\ awaiting' = Append(awaiting,
                        Continuation("arbStart", "", IF isConnecting THEN NULL ELSE FreeSock))
                 /\ sent' = <<>>
                 /\ disc' = FALSE
                 /\ run' = IF Connects THEN RunOff ELSE run
                 /\ UNCHANGED <<reconnectAttempts, onError, timers, registry>>

\* a caller invokes ArbitrageDetector.start(marketIds)
ArbStart(maxLive, marketIds) ==
    /\ arbStart(maxLive, marketIds)
    /\ op' = [Did("arbStart") EXCEPT !.created = (~isRunning /\ Connects)]
    /\ calls' = <<>> /\ errs' = <<>> /\ signals' = <<>> /\ ret' = <<>> /\ opps' = <<>>
    /\ UNCHANGED <<hasCreds, maker, config, onOpportunity, life>>

\* ArbitrageDetector.start continues after `await this.ws.connect()`
ArbStartResume(i) ==
    /\ Runnable(i)
    /\ awaiting[i].who = "arbStart"
    /\ startSubscribe(monitoredMarkets)
    /\ awaiting' = RemoveAt(awaiting, i)
    /\ op' = Did("arbStartResume")
    /\ calls' = <<>> /\ errs' = <<>> /\ signals' = <<>> /\ ret' = <<>> /\ opps' = <<>>
    /\ UNCHANGED <<hasCreds, maker, detector, life, disc, run>>

\* stop() that keeps the tracked markets
ArbStop_keepsMarkets ==
    /\ isRunning' = FALSE
    /\ IF Len(AllAssetIds(monitoredMarkets)) > 0
       THEN unsubscribe(AllAssetIds(monitoredMarkets))
       ELSE UNCHANGED <<conn, registry>> /\ sent' = <<>>
    /\ monitoredMarkets' = monitoredMarkets
    /\ op' = Did("arbStop")
    /\ calls' = <<>> /\ errs' = <<>> /\ signals' = <<>> /\ ret' = <<>> /\ opps' = <<>>
    /\ UNCHANGED <<awaiting, hasCreds, maker, config, onOpportunity, life, disc, run>>

\* a caller invokes ArbitrageDetector.stop()
ArbStop ==
    /\ isRunning' = FALSE
    /\ IF Len(AllAssetIds(monitoredMarkets)) > 0
       THEN unsubscribe(AllAssetIds(monitoredMarkets))
       ELSE UNCHANGED <<conn, registry>> /\ sent' = <<>>
    /\ monitoredMarkets' = <<>>
    /\ op' = Did("arbStop")
    /\ calls' = <<>> /\ errs' = <<>> /\ signals' = <<>> /\ ret' = <<>> /\ opps' = <<>>
    /\ UNCHANGED <<awaiting, hasCreds, maker, config, onOpportunity, life, disc, run>>

\* onOpportunityDetected(callback); replacing a callback by another is not
\* told apart
OnOpportunityDetected ==
    /\ ~onOpportunity
    /\ onOpportunity' = TRUE
    /\ op' = Did("onOpportunityDetected")
    /\ Quiet
    /\ signals' = <<>> /\ ret' = <<>> /\ opps' = <<>>
    /\ UNCHANGED <<conn, registry, awaiting, hasCreds, maker, config, isRunning,
                   monitoredMarkets, life, disc, run>>

\* a caller invokes updatePrices(marketId, yesPrice, noPrice)
UpdatePrices(marketId, yesPrice, noPrice) ==
    /\ IF MapHas(monitoredMarkets, marketId)
       THEN LET market == [MapAt(monitoredMarkets, marketId) EXCEPT
                              !.yesPrice = yesPrice, !.noPrice = noPrice,
                              !.lastUpdate = UPDATED]
            IN  /\ monitoredMarkets' = MapSet(monitoredMarkets, marketId, market)
                /\ opps' = checkAndNotify(config, isRunning, onOpportunity, market)
       ELSE /\ UNCHANGED monitoredMarkets
            /\ opps' = <<>>
    /\ op' = [Did("updatePrices") EXCEPT !.ids = <<marketId>>]
    /\ Quiet
    /\ signals' = <<>> /\ ret' = <<>>
    /\ UNCHANGED <<conn, registry, awaiting, hasCreds, maker, config, isRunning,
                   onOpportunity, life, disc, run>>

\* scanForOpportunities that also hands its results to the callback
ScanForOpportunities_notifies ==
    /\ ret' = scanForOpportunities(config, monitoredMarkets)
    /\ op' = Did("scanForOpportunities")
    /\ sent' = <<>> /\ calls' = <<>> /\ errs' = <<>>
    /\ signals' = <<>>
    /\ opps' = IF onOpportunity THEN ret' ELSE <<>>
    /\ UNCHANGED <<conn, registry, awaiting, hasCreds, maker, detector, life, disc, run>>

\* a caller invokes scanForOpportunities()
ScanForOpportunities ==
    /\ ret' = scanForOpportunities(config, monitoredMarkets)
    /\ op' = Did("scanForOpportunities")
    /\ Quiet
    /\ signals' = <<>> /\ opps' = <<>>
    /\ UNCHANGED <<conn, registry, awaiting, hasCreds, maker, detector, life, disc, run>>

\* a caller invokes checkYesNoArbitrage(market)
CheckYesNoArbitrage(market) ==
    /\ ret' = checkYesNoArbitrage(config, market)
    /\ op' = [Did("checkYesNoArbitrage") EXCEPT !.arg = <<market>>]
    /\ Quiet
    /\ signals' = <<>> /\ opps' = <<>>
    /\ UNCHANGED <<conn, registry, awaiting, hasCreds, maker, detector, life, disc, run>>

\* the detector is constructed with the configuration cfg
Configure(cfg) ==
    /\ ~isRunning /\ monitoredMarkets = <<>> /\ ~onOpportunity
    /\ \A i \in 1..Len(awaiting) : awaiting[i].who # "arbStart"
    /\ op.name \in {"init", "new"}
    /\ config # cfg
    /\ config' = cfg
    /\ op' = Did("new")
    /\ Quiet
    /\ signals' = <<>> /\ ret' = <<>> /\ opps' = <<>>
    /\ UNCHANGED <<conn, registry, awaiting, hasCreds, maker, isRunning,
                   monitoredMarkets, onOpportunity, life, disc, run>>

(* ------------------------------ Next ----------------------------------- *)

\* every operation and event, with at most maxLive transports alive at a time
\* and at most maxRegs registrations
NextFor(maxLive, maxRegs) ==
    \/ Connect(maxLive)
    \/ Disconnect
    \/ setErrorHandler
    \/ ReconnectTimer(maxLive)
    \/ \E s \in SockIds : TransportOpen(s)
    \/ \E s \in SockIds : TransportFail(s)
    \/ \E s \in SockIds : TransportClose(s)
    \/ \E s \in SockIds, data \in Frames :
          \E thr \in 0..Len(Targets(data, orderBookCallbacks, priceCallbacks)) :
             TransportMessage(s, data, thr)
    \/ \E assetIds \in IdLists, callback \in Handlers :
          SubscribeOrderBook(maxRegs, assetIds, callback)
    \/ \E assetIds \in IdLists, callback \in Handlers :
          SubscribePrice(maxRegs, assetIds, callback)
    \/ \E assetIds \in IdLists : Unsubscribe(assetIds)

\* the connection life cycle: several transports alive, one registration
Next == NextFor(MaxSockets, ConnRegs)
Spec == Init /\ [][Next]_vars

\* the registry and the dispatch: one transport alive, several registrations
NextRegistry == NextFor(RegistryLive, MaxRegs)
SpecRegistry == Init /\ [][NextRegistry]_vars

\* the order-book frames the engines receive
BookFrames == [type : {"book"}, asset_id : Assets, market : {<<"m1">>}, data : {<<FullData>>}]

\* the transport of the engines: one transport alive at a time, connected by
\* the engines' start()
NextTransport ==
    \/ ReconnectTimer(RegistryLive)
    \/ \E s \in SockIds : TransportOpen(s)
    \/ \E s \in SockIds : TransportFail(s)
    \/ \E s \in SockIds : TransportClose(s)
    \/ \E s \in SockIds, data \in BookFrames : TransportMessage(s, data, 0)

\* the market maker's life cycle for the assets `assets`
NextMaker(assets) ==
    \/ ProvideCredentials
    \/ \E a \in assets : MakerStart(RegistryLive, EngineRegs, a, "m1")
    \/ \E i \in 1..Len(awaiting) : MakerStartResume(EngineRegs, i)
    \/ \E a \in assets : MakerStop(a)
    \/ \E i \in 1..Len(awaiting) : MakerStopResume(i)
    \/ \E i \in TimerIds : RefreshTimer(i)

\* the arbitrage detector's life cycle
NextDetector ==
    \/ \E marketIds \in MarketLists : ArbStart(RegistryLive, marketIds)
    \/ \E i \in 1..Len(awaiting) : ArbStartResume(i)
    \/ ArbStop

\* the market maker on the streaming client
NextMakerLife == NextMaker(Assets) \/ NextTransport
SpecMaker == Init /\ [][NextMakerLife]_vars

\* both engines on the streaming client, the market maker with one asset
NextEngines == NextMaker({"a1"}) \/ NextDetector \/ NextTransport
SpecEngines == Init /\ [][NextEngines]_vars

\* the quoting of the market maker: calculateQuotes and generateSignals are
\* called with the order books of Books, on an asset that is unmanaged,
\* running or stopping, at the positions of Positions
NextQuotes ==
    \/ ProvideCredentials
    \/ MakerStart(RegistryLive, EngineRegs, "a1", "m1")
    \/ \E i \in 1..Len(awaiting) : MakerStartResume(EngineRegs, i)
    \/ MakerStop("a1")
    \/ \E i \in 1..Len(awaiting) : MakerStopResume(i)
    \/ \E s \in SockIds : TransportOpen(s)
    \/ \E position \in Positions : SetPosition("a1", position)
    \/ \E orderBook \in Books : CalculateQuotes(orderBook)
    \/ \E a \in Assets, orderBook \in Books : GenerateSignals(a, orderBook)
SpecQuotes == Init /\ [][NextQuotes]_vars

\* the arbitrage detector: its life cycle, its prices and its checks
NextArbitrage ==
    \/ \E cfg \in Configs : Configure(cfg)
    \/ NextDetector
    \/ OnOpportunityDetected
    \/ \E marketId \in Markets, prices \in PricePairs :
          UpdatePrices(marketId, prices[1], prices[2])
    \/ ScanForOpportunities
    \/ \E s \in SockIds : TransportOpen(s)
    \/ \E s \in SockIds : TransportFail(s)
SpecArbitrage == Init /\ [][NextArbitrage]_vars

\* checkYesNoArbitrage on its own: a detector of either configuration is
\* handed every market of TestMarkets
NextCheck ==
    \/ \E cfg \in Configs : Configure(cfg)
    \/ \E market \in TestMarkets : CheckYesNoArbitrage(market)
SpecCheck == Init /\ [][NextCheck]_vars

\* the price frames the engines receive
PriceFrames ==
    [type : {"price_change"}, asset_id : Assets, market : {<<>>}, data : {<<FullData>>}]

\* defensive calls: both engines on the streaming client, with stop,
\* unsubscribe and updatePrices also called for keys that are not tracked
NextDefensive ==
    \/ ProvideCredentials
    \/ MakerStart(RegistryLive, EngineRegs, "a1", "m1")
    \/ \E i \in 1..Len(awaiting) : MakerStartResume(EngineRegs, i)
    \/ \E a \in Assets : MakerStop(a)
    \/ \E i \in 1..Len(awaiting) : MakerStopResume(i)
    \/ ArbStart(RegistryLive, <<"m1">>)
    \/ \E i \in 1..Len(awaiting) : ArbStartResume(i)
    \/ ArbStop
    \/ OnOpportunityDetected
    \/ \E marketId \in Markets : UpdatePrices(marketId, Num(48, 100), Num(47, 100))
    \/ \E assetIds \in IdLists : Unsubscribe(assetIds)
    \/ \E s \in SockIds : TransportOpen(s)
    \/ \E s \in SockIds, data \in PriceFrames \cup BookFrames : TransportMessage(s, data, 0)
SpecDefensive == Init /\ [][NextDefensive]_vars

\* MarketMaker.start on a connection that may fail and reconnect; stop is
\* never called
NextStart ==
    \/ ProvideCredentials
    \/ setErrorHandler
    \/ \E a \in Assets : MakerStart(RegistryLive, EngineRegs, a, "m1")
    \/ \E i \in 1..Len(awaiting) : MakerStartResume(EngineRegs, i)
    \/ ReconnectTimer(RegistryLive)
    \/ \E s \in SockIds : TransportOpen(s)
    \/ \E s \in SockIds : TransportFail(s)
\* a transport that is connecting opens or fails
Settles == \E s \in SockIds : sockets[s] = "CONNECTING" /\ (TransportOpen(s) \/ TransportFail(s))
\* the event loop runs every queued continuation and fires every pending
\* timer, and the network settles every connection attempt
SpecStart ==
    /\ Init /\ [][NextStart]_vars
    /\ WF_vars(\E i \in 1..Len(awaiting) : MakerStartResume(EngineRegs, i))
    /\ WF_vars(ReconnectTimer(RegistryLive))
    /\ WF_vars(Settles)

\* the connection life cycle on its own
NextReconnect ==
    \/ Connect(MaxSockets)
    \/ Disconnect
    \/ setErrorHandler
    \/ ReconnectTimer(MaxSockets)
    \/ \E s \in SockIds : TransportOpen(s)
    \/ \E s \in SockIds : TransportFail(s)
    \/ \E s \in SockIds : TransportClose(s)
\* a transport that is closing fires its close event
Closes == \E s \in SockIds : sockets[s] = "CLOSING" /\ TransportClose(s)
\* the event loop fires every pending timer, and the network settles every
\* connection attempt and every closing handshake
SpecReconnect ==
    /\ Init /\ [][NextReconnect]_vars
    /\ WF_vars(ReconnectTimer(MaxSockets))
    /\ WF_vars(Settles)
    /\ WF_vars(Closes)

\* the market maker on two assets, with price callbacks registered and
\* assets unsubscribed by other users of the client
NextAssets ==
    \/ ProvideCredentials
    \/ \E a \in Assets : MakerStart(RegistryLive, EngineRegs, a, "m1")
    \/ \E i \in 1..Len(awaiting) : MakerStartResume(EngineRegs, i)
    \/ \E a \in Assets : MakerStop(a)
    \/ \E i \in 1..Len(awaiting) : MakerStopResume(i)
    \/ \E a \in Assets : SubscribePrice(EngineRegs, <<a>>, "h1")
    \/ \E a \in Assets : Unsubscribe(<<a>>)
    \/ \E s \in SockIds : TransportOpen(s)
SpecAssets == Init /\ [][NextAssets]_vars

\* order books near the ends of the price range: one level a side, the best
\* bid below the best ask, both strictly between 0 and 1
EdgePrices == {Dec(0, <<0, 0, 0, 4>>), Dec(0, <<0, 0, 1>>), Dec(0, <<0, 1>>),
               Dec(0, <<1, 0>>), Dec(0, <<4, 0>>), Dec(0, <<4, 4>>), Dec(0, <<5, 0>>),
               Dec(0, <<9, 0>>), Dec(0, <<9, 9>>), Dec(0, <<9, 9, 5>>),
               Dec(0, <<9, 9, 9>>), Dec(0, <<9, 9, 9, 6>>)}
EdgeBooks ==
    {[market |-> "m1", asset_id |-> "a1", bids |-> <<Level(q[1])>>,
      asks |-> <<Level(q[2])>>, timestamp |-> "t1"] :
        q \in {p \in EdgePrices \X EdgePrices : parseFloat(p[1]) < parseFloat(p[2])}}

\* calculateQuotes on its own, called with the order books of EdgeBooks by a
\* market maker with or without credentials
NextRange ==
    \/ ProvideCredentials
    \/ \E orderBook \in EdgeBooks : CalculateQuotes(orderBook)
SpecRange == Init /\ [][NextRange]_vars

TypeOK ==
    /\ sockets \in [SockIds -> READY]
    /\ ws \in SockIds \cup {NULL}
    /\ reconnectAttempts \in 0..MaxReconnectAttempts
    /\ isConnecting \in BOOLEAN
    /\ shouldReconnect \in BOOLEAN
    /\ onError \in BOOLEAN
    /\ timers \in 0..MaxTimers
    /\ WithinBounds(orderBookCallbacks, priceCallbacks, MaxRegs)

(* ------------------------------ claims --------------------------------- *)

\* C1: after disconnect(), and as long as no caller invokes connect() again,
\* no step of the client creates a new transport: neither a close event nor
\* a reconnect timer that was pending when disconnect() was called.
C1_NoAttemptAfterDisconnect == disc => ~op.created

\* C2: in a sequence that starts with a fresh connect() (counter at zero,
\* error handler set) and in which every attempt fails, once
\* maxReconnectAttempts attempts have failed no reconnect is scheduled and
\* the error handler has been invoked exactly once.
C2_StopsAfterMaxFailures ==
    (run.on /\ run.fails = MaxReconnectAttempts) => (timers = 0 /\ run.errs = 1)

\* C3: at most one transport created by the client is connecting or open at
\* any time.
C3_SingleTransport ==
    Cardinality({s \in SockIds : sockets[s] \in {"CONNECTING", "OPEN"}}) <= 1

\* C4: every open of a transport leaves the reconnect counter at zero,
\* whatever its value was before.
C4_OpenResetsCounter == op.name = "open" => reconnectAttempts = 0
\* an open after the counter had reached its maximum
C4_Witness == op.name = "open" /\ op.att = MaxReconnectAttempts /\ reconnectAttempts = 0

\* the assets with at least one callback on a channel, and the subscribe
\* frames of the last step for a channel
RegisteredOn(ch) ==
    {a \in Assets : MapGet(IF ch = "book" THEN orderBookCallbacks ELSE priceCallbacks, a) # <<>>}
FramesOn(ch) ==
    {i \in 1..Len(sent) : sent[i].type = "subscribe" /\ sent[i].channel = ch}

\* C5: every open of a transport sends, per channel, exactly one subscribe
\* frame listing exactly the assets that have a callback on that channel, and
\* no frame for a channel without registered asset (so an asset unsubscribed
\* while disconnected is not subscribed again).
C5_ReplayOnOpen ==
    op.name = "open" =>
        /\ \A i \in 1..Len(sent) : sent[i].type = "subscribe"
        /\ \A ch \in {"book", "price"} :
              IF RegisteredOn(ch) = {}
              THEN FramesOn(ch) = {}
              ELSE /\ Cardinality(FramesOn(ch)) = 1
                   /\ \A i \in FramesOn(ch) : Range(sent[i].assets_ids) = RegisteredOn(ch)

\* C6: a subscribe call made while the transport is open sends one subscribe
\* frame for its asset ids on its channel, a call made while it is not open
\* sends nothing, and every open of a transport sends, for each channel, a
\* subscribe frame containing every asset then registered on it.
C6_SubscribeNowOrOnOpen ==
    /\ op.name = "subscribeOrderBook" =>
          sent = IF isConnected
                 THEN <<[sock |-> ws, type |-> "subscribe", channel |-> "book",
                         assets_ids |-> op.ids]>>
                 ELSE <<>>
    /\ op.name = "subscribePrice" =>
          sent = IF isConnected
                 THEN <<[sock |-> ws, type |-> "subscribe", channel |-> "price",
                         assets_ids |-> op.ids]>>
                 ELSE <<>>
    /\ op.name = "open" =>
          \A ch \in {"book", "price"} : \A a \in RegisteredOn(ch) :
              \E i \in FramesOn(ch) : a \in Range(sent[i].assets_ids)

\* asset a has no callback in the maps obc and pc
NoHandlersIn(obc, pc, a) == MapGet(obc, a) = <<>> /\ MapGet(pc, a) = <<>>
IsDispatchable(f) == f.type \in {"book", "price_change"} /\ f.data # <<>>

\* C7: unsubscribe(assetIds) leaves every listed asset without order-book and
\* without price callback, however many it had; an asset without callbacks
\* gets one again only by a subscribe call that names it; and a book or
\* price_change frame for an asset without callbacks invokes no callback.
C7_UnsubscribeRemovesAll ==
    [][ /\ op'.name = "unsubscribe" =>
             \A a \in Range(op'.ids) : NoHandlersIn(orderBookCallbacks', priceCallbacks', a)
        /\ \A a \in Assets :
             (/\ NoHandlersIn(orderBookCallbacks, priceCallbacks, a)
              /\ ~NoHandlersIn(orderBookCallbacks', priceCallbacks', a))
             => (/\ op'.name \in {"subscribeOrderBook", "subscribePrice"}
                 /\ a \in Range(op'.ids))
        /\ (/\ op'.name = "message"
            /\ IsDispatchable(op'.frame)
            /\ NoHandlersIn(orderBookCallbacks, priceCallbacks, op'.frame.asset_id))
           => calls' = <<>>
      ]_vars
\* an unsubscribe that removed several registrations while connected
C7_Witness ==
    /\ op.name = "unsubscribe"
    /\ op.removed >= 2
    /\ op.ids # <<>>
    /\ \A a \in Range(op.ids) : NoHandlersIn(orderBookCallbacks, priceCallbacks, a)
    /\ isConnected

\* C8: a book frame with a payload for asset A invokes the order-book
\* callbacks registered for A, one invocation per registration and in order,
\* each with the order book of A, and nothing else; a price_change frame
\* does the same with the price callbacks of A; any other frame invokes
\* nothing.
C8_DispatchToAll ==
    op.name = "message" =>
        LET f == op.frame
            expect == IF f.type = "book" /\ f.data # <<>>
                      THEN MapGet(orderBookCallbacks, f.asset_id)
                      ELSE IF f.type = "price_change" /\ f.data # <<>>
                      THEN MapGet(priceCallbacks, f.asset_id)
                      ELSE <<>>
        IN  /\ [i \in 1..Len(calls) |-> calls[i].cb] = expect
            /\ \A i \in 1..Len(calls) :
                  IF f.type = "book"
                  THEN calls[i].kind = "book" /\ calls[i].arg[1].asset_id = f.asset_id
                  ELSE /\ calls[i].kind = "price"
                       /\ calls[i].arg = <<f.asset_id, f.data[1].price>>

\* C9: a frame that cannot be decoded invokes no callback, writes nothing,
\* reports no error and changes neither the transports, the reconnect
\* counter, the pending timers nor the registry, so a later frame is
\* dispatched as if it had not arrived.
C9_MalformedDropped ==
    [][ (op'.name = "message" /\ op'.frame = GARBAGE) =>
            /\ calls' = <<>>
            /\ sent' = <<>>
            /\ errs' = <<>>
            /\ UNCHANGED <<conn, registry>>
      ]_vars
\* a malformed frame arrived on the open transport of a client with
\* registered callbacks
C9_Witness ==
    /\ op.name = "message"
    /\ op.frame = GARBAGE
    /\ isConnected
    /\ orderBookCallbacks # <<>>
    /\ priceCallbacks # <<>>
    /\ calls = <<>>

\* C10: the registry is set-like: a subscribe call whose callback is already
\* registered for each of its assets on that channel leaves the registry as
\* it is, and so does an unsubscribe call for assets without callbacks.
C10_SetLike ==
    [][ /\ (/\ op'.name = "subscribeOrderBook"
            /\ \A a \in Range(op'.ids) : op'.cb \in Range(MapGet(orderBookCallbacks, a)))
           => orderBookCallbacks' = orderBookCallbacks
        /\ (/\ op'.name = "subscribePrice"
            /\ \A a \in Range(op'.ids) : op'.cb \in Range(MapGet(priceCallbacks, a)))
           => priceCallbacks' = priceCallbacks
        /\ (/\ op'.name = "unsubscribe"
            /\ \A a \in Range(op'.ids) :
                  NoHandlersIn(orderBookCallbacks, priceCallbacks, a))
           => UNCHANGED registry
      ]_vars

\* what the market maker holds for asset a
TimersOf(a) == {i \in TimerIds : intervals[i] = a}
HandlersOf(a) ==
    {i \in 1..Len(MapGet(orderBookCallbacks, a)) :
        MapGet(orderBookCallbacks, a)[i] = MakerHandler(a)}

\* C11: once stop(a) has completed and start(a) has not been called since,
\* the market maker holds nothing for a: no state entry, no refresh timer
\* (running or recorded) and no order-book callback of its own, also when a
\* start(a) was waiting for the connection while stop(a) ran.
C11_StopIsFinal ==
    \A a \in Assets :
        life[a] = "stopped" =>
            /\ ~MapHas(states, a)
            /\ ~MapHas(refreshTimers, a)
            /\ TimersOf(a) = {}
            /\ HandlersOf(a) = {}

\* a start() of asset a is stopped at its await
StartPending(aw, a) == \E i \in 1..Len(aw) : aw[i].who = "start" /\ aw[i].asset = a

\* C12: start is idempotent.  A MarketMaker.start for an asset that has a
\* state entry (the earlier start completed, or is still waiting for the
\* connection) changes nothing; as long as the asset was never stopped it has
\* at most one order-book callback of the market maker and one refresh
\* timer, and exactly one of each, with its state entry, when the setup of
\* its start completes.  An ArbitrageDetector.start while the detector is
\* running changes neither the tracked markets nor the registry.
C12_StartIdempotent ==
    [][ /\ (op'.name = "start" /\ MapHas(states, op'.ids[1]))
           => (UNCHANGED <<conn, registry, maker, awaiting>> /\ sent' = <<>>)
        /\ (op'.name = "arbStart" /\ isRunning)
           => (UNCHANGED <<conn, registry, detector, awaiting>> /\ sent' = <<>>)
        /\ \A a \in Assets :
              life'[a] = "fresh" =>
                 /\ Cardinality(HandlersOf(a))' <= 1
                 /\ Cardinality(TimersOf(a))' <= 1
                 /\ (op'.name = "startResume" /\ op'.ids = <<a>>) =>
                        /\ MapHas(states', a)
                        /\ Cardinality(HandlersOf(a))' = 1
                        /\ Cardinality(TimersOf(a))' = 1
                        /\ MapHas(refreshTimers', a)
      ]_vars
\* a second start of an asset whose first start still waits for the
\* connection, the detector running
C12_Witness ==
    /\ op.name = "start"
    /\ ~op.created
    /\ MapHas(states, op.ids[1])
    /\ \E i \in 1..Len(awaiting) :
          awaiting[i] = Continuation("start", op.ids[1], ws) /\ ws # NULL
    /\ Len(awaiting) = 1
    /\ isRunning
    /\ monitoredMarkets # <<>>

\* C13: a MarketMaker.start made while hasCredentials() is false raises its
\* error and changes nothing: no state entry, no transport and no connection
\* attempt, no callback, no frame, no timer and no continuation.
C13_NoCredentialsNoEffect ==
    [][ (op'.name = "start" /\ ~hasCreds) =>
            /\ op'.threw
            /\ ~op'.created
            /\ UNCHANGED <<conn, registry, maker, awaiting>>
            /\ sent' = <<>>
      ]_vars
\* a start without credentials on a client the detector has connected
C13_Witness ==
    /\ op.name = "start"
    /\ op.threw
    /\ ~hasCreds
    /\ isConnected
    /\ states = <<>>
    /\ orderBookCallbacks = <<>>

\* the signals of ret with the given action
WithAction(action) == SelectSeq(ret, LAMBDA sig : sig.action = action)

\* C14: generateSignals returns no signal when the asset has no state entry,
\* is not running or the book gives no quotes; otherwise it returns a BUY
\* signal at the bid quote exactly when position < maxPosition, a SELL
\* signal at the ask quote exactly when position > -maxPosition, each at
\* most once, and nothing else.
C14_SignalsByPosition ==
    op.name = "generateSignals" =>
        LET a == op.ids[1]
            quotes == calculateQuotes(op.arg[1])
        IN  IF ~MapHas(states, a) \/ ~MapAt(states, a).isRunning \/ quotes = <<>>
            THEN ret = <<>>
            ELSE LET position == MapAt(states, a).position
                     buys == WithAction("BUY")
                     sells == WithAction("SELL")
                 IN  /\ Len(buys) = (IF position < Num(100, 1) THEN 1 ELSE 0)
                     /\ Len(sells) = (IF position > -Num(100, 1) THEN 1 ELSE 0)
                     /\ Len(ret) = Len(buys) + Len(sells)
                     /\ \A i \in 1..Len(buys) :
                           buys[i].price = quotes[1].bid /\ buys[i].asset_id = a
                     /\ \A i \in 1..Len(sells) :
                           sells[i].price = quotes[1].ask /\ sells[i].asset_id = a
\* a running asset at position = maxPosition gets the SELL signal alone
C14_Witness ==
    /\ op.name = "generateSignals"
    /\ MapHas(states, op.ids[1])
    /\ MapAt(states, op.ids[1]).isRunning
    /\ MapAt(states, op.ids[1]).position = Num(100, 1)
    /\ Len(ret) = 1
    /\ ret[1].action = "SELL"

\* the absolute value of a number
Abs(x) == IF x < 0 THEN -x ELSE x

\* C15: for an order book with a bid and an ask, the quotes calculateQuotes
\* returns satisfy bid <= bestBid - 0.001, ask >= bestAsk + 0.001 and
\* bid < ask.
C15_QuotesOutsideBest ==
    (op.name = "calculateQuotes" /\ op.arg[1].bids # <<>> /\ op.arg[1].asks # <<>>) =>
        LET bestBid == parseFloat(op.arg[1].bids[1].price)
            bestAsk == parseFloat(op.arg[1].asks[1].price)
        IN  /\ ret # <<>>
            /\ parseFloat(ret[1].bid) <= bestBid - Num(1, 1000)
            /\ parseFloat(ret[1].ask) >= bestAsk + Num(1, 1000)
            /\ parseFloat(ret[1].bid) < parseFloat(ret[1].ask)

Checked == op.name = "checkYesNoArbitrage"
\* config.orderSize as a whole number of units
OrderUnits == parseFloat(config.orderSize) \div SCALE
\* the signal buys `side` of the asset at the price, written with 4 decimals
BuysAt(signal, assetId, side, price) ==
    /\ signal.action = "BUY"
    /\ signal.asset_id = assetId
    /\ signal.side = side
    /\ Len(signal.price.frac) = 4
    /\ parseFloat(signal.price) = price

C18_SumRule ==
    (Checked /\ config.minSpread = Num(1, 100)) =>
        LET total == op.arg[1].yesPrice + op.arg[1].noPrice
        IN  /\ total = Num(9, 10) => (ret # <<>> /\ ret[1].spread = Num(1, 10))
            /\ total = Num(995, 1000) => ret = <<>>
\* C18 amended: the same for markets whose two prices are non-zero, under the
\* default orderSize and maxSlippage.
C18_SumRuleNonZero ==
    (/\ Checked
     /\ config = ArbitrageConfig
     /\ op.arg[1].yesPrice # 0 /\ op.arg[1].noPrice # 0) =>
        LET total == op.arg[1].yesPrice + op.arg[1].noPrice
        IN  /\ total = Num(9, 10) => (ret # <<>> /\ ret[1].spread = Num(1, 10))
            /\ total = Num(995, 1000) => ret = <<>>
\* the market 0.42 / 0.48 gives an opportunity with spread 0.1
C18_Witness ==
    /\ Checked
    /\ config = ArbitrageConfig
    /\ op.arg[1].yesPrice = Num(42, 100) /\ op.arg[1].noPrice = Num(48, 100)
    /\ ret # <<>> /\ ret[1].spread = Num(1, 10)

\* the default detector was asked about the market 0.48 / 0.47
Scenario048 ==
    /\ Checked
    /\ config = ArbitrageConfig
    /\ op.arg[1].yesPrice = Num(48, 100) /\ op.arg[1].noPrice = Num(47, 100)
\* the opportunity has spread 0.05 and two BUY signals
Spread005(result) ==
    /\ result # <<>>
    /\ result[1].spread = Num(5, 100)
    /\ Len(result[1].signals) = 2
    /\ \A k \in 1..2 : result[1].signals[k].action = "BUY"

\* C19 as stated: yesPrice = 0.48, noPrice = 0.47, orderSize "50" and
\* maxSlippage 0.005 give an opportunity with spread 0.05 and expectedProfit
\* 1.49, with two BUY signals.
C19_Profit149 ==
    Scenario048 => (Spread005(ret) /\ ret[1].expectedProfit = Num(149, 100))
\* C19 amended: the expectedProfit is 2.49 = 0.05 * 50 - 2 * 0.005.
C19_Profit249 ==
    Scenario048 => (Spread005(ret) /\ ret[1].expectedProfit = Num(249, 100))
\* the scenario was run and returned its opportunity
C19_Witness ==
    Scenario048 /\ ret # <<>> /\ ret[1].expectedProfit > 0

\* the non-none results of checkYesNoArbitrage over the tracked markets, in
\* the order of the map
Found(cfg, mm) ==
    LET hits == SelectSeq(mm, LAMBDA e : checkYesNoArbitrage(cfg, e.v) # <<>>)
    IN  [k \in 1..Len(hits) |-> checkYesNoArbitrage(cfg, hits[k].v)[1]]

\* C20: scanForOpportunities is a pure read in any state, running or stopped:
\* it leaves the tracked markets, their prices and timestamps, the running
\* flag and the client's registry unchanged, invokes no opportunity callback,
\* and returns exactly the non-none results of checkYesNoArbitrage over the
\* tracked markets.
C20_ScanIsPureRead ==
    [][ op'.name = "scanForOpportunities" =>
            /\ UNCHANGED <<detector, registry, conn, maker, awaiting>>
            /\ opps' = <<>>
            /\ sent' = <<>> /\ calls' = <<>>
            /\ ret' = Found(config, monitoredMarkets) ]_vars
\* a running detector with a callback scanned two markets and returned the one
\* opportunity among them without notifying
C20_Witness ==
    /\ op.name = "scanForOpportunities"
    /\ isRunning /\ onOpportunity
    /\ Len(monitoredMarkets) = 2
    /\ Len(ret) = 1
    /\ opps = <<>>

\* C21: the error handler is invoked only when the reconnect attempts are
\* exhausted: a failure or a drop of a transport after which a reconnect is
\* scheduled hands nothing to the error handler.
C21_ErrorOnlyOnExhaustion ==
    [][ (op'.name \in {"fail", "close"} /\ timers' > timers) => errs' = <<>> ]_vars

\* the tracked markets with assetId as one of their legs
TrackedBy(assetId) ==
    {i \in 1..Len(monitoredMarkets) :
        assetId \in {monitoredMarkets[i].v.yesAssetId, monitoredMarkets[i].v.noAssetId}}

\* C22: operating on a key that is not tracked is a silent no-op.  A
\* MarketMaker.stop for an asset without state entry, an unsubscribe for
\* assets without callbacks, an updatePrices for a market that is not tracked
\* and a price update for an asset that is no leg of a tracked market raise
\* no error, invoke no callback and leave the engines' state, the timers and
\* the registry unchanged.
C22_UntrackedIsNoOp ==
    [][ /\ (op'.name = "stop" /\ ~MapHas(states, op'.ids[1])) =>
              /\ ~op'.threw /\ errs' = <<>> /\ sent' = <<>>
              /\ UNCHANGED <<conn, registry, maker, detector, awaiting>>
        /\ (/\ op'.name = "unsubscribe"
            /\ \A a \in Range(op'.ids) : NoHandlersIn(orderBookCallbacks, priceCallbacks, a)) =>
              /\ ~op'.threw /\ errs' = <<>>
              /\ UNCHANGED <<conn, registry, maker, detector, awaiting>>
        /\ (op'.name = "updatePrices" /\ ~MapHas(monitoredMarkets, op'.ids[1])) =>
              /\ ~op'.threw /\ errs' = <<>> /\ sent' = <<>> /\ opps' = <<>>
              /\ UNCHANGED <<conn, registry, maker, detector, awaiting>>
        /\ (/\ op'.name = "message" /\ op'.frame.type = "price_change"
            /\ TrackedBy(op'.frame.asset_id) = {}) =>
              /\ errs' = <<>> /\ opps' = <<>>
              /\ UNCHANGED <<conn, registry, maker, detector, awaiting>>
        /\ \A a \in Assets, price \in ArbPrices :
              TrackedBy(a) = {} =>
                 handlePriceUpdate(monitoredMarkets, a, price) = monitoredMarkets
      ]_vars
\* stop was called for an asset that is not managed while another asset is
\* managed with its callback and its timer and the detector tracks a market
C22_Witness ==
    /\ op.name = "stop"
    /\ op.ids = <<"a2">>
    /\ ~MapHas(states, "a2")
    /\ MapHas(states, "a1")
    /\ HandlersOf("a1") # {}
    /\ TimersOf("a1") # {}
    /\ isRunning
    /\ monitoredMarkets # <<>>
    /\ awaiting = <<>>

\* start(a) has completed its setup: the asset has its order-book callback
\* and a running refresh timer
SetupDone(a) == HandlersOf(a) # {} /\ TimersOf(a) # {} /\ MapHas(refreshTimers, a)

\* C23: when stop is never called and the connection is eventually
\* established for good, every asset for which start created a state entry
\* eventually has its order-book callback registered and its refresh timer
\* running, also when the first connection attempt fails and a later
\* automatic reconnect succeeds.
C23_StartCompletes ==
    <>[]isConnected => \A a \in Assets : (MapHas(states, a) ~> SetupDone(a))

\* asset a is not running: it has no state entry, or its running flag is
\* cleared
NotRunning(a) == ~MapHas(states, a) \/ ~MapAt(states, a).isRunning

\* C24: a dispatch that arrives late for a stopped target is discarded
\* without error.  An order-book update delivered to the market maker's
\* callback of an asset that is not running produces no signal and changes
\* no state; while the detector is stopped, a price update, streamed or made
\* by updatePrices, invokes no opportunity callback and changes no tracked
\* state.
C24_LateDispatchDiscarded ==
    [][ /\ (/\ op'.name = "message" /\ op'.frame.type = "book"
            /\ NotRunning(op'.frame.asset_id)) =>
              /\ \A i \in 1..Len(signals') : signals'[i].asset_id # op'.frame.asset_id
              /\ errs' = <<>>
              /\ UNCHANGED <<maker, detector, conn, registry>>
        /\ (/\ op'.name \in {"updatePrices", "message"}
            /\ ~isRunning) =>
              /\ opps' = <<>>
              /\ errs' = <<>>
              /\ ~op'.threw
              /\ UNCHANGED <<detector, conn, registry>>
      ]_vars
\* an order-book update reached the market maker's callback of an asset whose
\* stop has completed, while the detector is not running and has a callback
C24_Witness ==
    /\ op.name = "message"
    /\ op.frame.type = "book"
    /\ life[op.frame.asset_id] = "stopped"
    /\ \E i \in 1..Len(calls) : calls[i].cb = MakerHandler(op.frame.asset_id)
    /\ signals = <<>>
    /\ ~isRunning
    /\ onOpportunity

\* C25: each firing of the refresh timer of a managed, running asset cancels
\* the asset's outstanding orders and then produces fresh quotes for it:
\* signals, or a new bid or ask order.
C25_RefreshRequotes ==
    (/\ op.name = "refresh"
     /\ MapHas(states, op.ids[1])
     /\ MapAt(states, op.ids[1]).isRunning) =>
        \/ \E i \in 1..Len(signals) : signals[i].asset_id = op.ids[1]
        \/ MapAt(states, op.ids[1]).currentBid # <<>>
        \/ MapAt(states, op.ids[1]).currentAsk # <<>>

\* some transport is open
AnyOpen == \E s \in SockIds : sockets[s] = "OPEN"
\* the client is at rest: no reconnect timer pending, no attempt in progress,
\* the transport disconnected
AtRest ==
    /\ timers = 0
    /\ ~isConnecting
    /\ ~isConnected
    /\ \A s \in SockIds : sockets[s] # "CONNECTING"

\* C26: reconnection is bounded and terminates.  A reconnect is scheduled
\* only while fewer than maxReconnectAttempts were scheduled since the last
\* open (the count starts again only at an open), and when from some point
\* on no transport opens and no caller connects, the client reaches and
\* keeps a state with no reconnect timer pending, no attempt in progress and
\* the transport disconnected.
C26_ReconnectTerminates ==
    /\ [][ /\ timers' > timers =>
                /\ reconnectAttempts < MaxReconnectAttempts
                /\ reconnectAttempts' = reconnectAttempts + 1
                /\ timers' = timers + 1
           /\ reconnectAttempts' # reconnectAttempts =>
                \/ timers' = timers + 1
                \/ op'.name = "open" /\ reconnectAttempts' = 0
         ]_vars
    /\ (<>[]~AnyOpen /\ <>[](op.name # "connect")) => <>[]AtRest
\* the last attempt allowed has failed and the client is at rest
C26_Witness ==
    /\ op.name = "fail"
    /\ reconnectAttempts = MaxReconnectAttempts
    /\ shouldReconnect
    /\ AtRest
    /\ Live(sockets) = {}

\* the callbacks registered for the asset of frame f on the channel of f
RegisteredFor(f) ==
    MapGet(IF f.type = "book" THEN orderBookCallbacks ELSE priceCallbacks, f.asset_id)

\* C27: frames are processed in arrival order, without reordering or
\* coalescing.  Every frame is dispatched in a step of its own, and a book or
\* price_change frame with a payload invokes every handler registered for its
\* asset exactly once, so that the invocations of a handler are the frames
\* received for its asset, in order.
C27_OneInvocationPerFrame ==
    (op.name = "message" /\ IsDispatchable(op.frame)) =>
        \A h \in Range(RegisteredFor(op.frame)) :
            Cardinality({i \in 1..Len(calls) : calls[i].cb = h}) = 1

\* the actions of a sequence of signals
ActionsOf(sigs) == [i \in 1..Len(sigs) |-> sigs[i].action]

\* C28: under the operations of the market maker every managed asset has
\* position 0 and neither a bid nor an ask order, so the position guard (with
\* maxPosition = 100 > 0) suppresses no signal: for a running asset and a
\* book with both sides, generateSignals returns one BUY and one SELL signal,
\* and so does every order-book update delivered to the asset's callback.
C28_PositionStaysZero ==
    /\ \A i \in 1..Len(states) :
          /\ states[i].v.position = 0
          /\ states[i].v.currentBid = <<>>
          /\ states[i].v.currentAsk = <<>>
    /\ \A a \in Assets :
          (MapHas(states, a) /\ MapAt(states, a).isRunning) =>
             \A f \in BookFrames :
                ActionsOf(generateSignals(states, a, parseOrderBook(f))) = <<"BUY", "SELL">>
    /\ op.name = "message" =>
          /\ Len(signals) % 2 = 0
          /\ \A i \in 1..Len(signals) :
                signals[i].action = IF i % 2 = 1 THEN "BUY" ELSE "SELL"
          /\ (/\ MapHas(states, op.frame.asset_id)
              /\ MapAt(states, op.frame.asset_id).isRunning) =>
                Len(signals) = 2 * Cardinality(
                    {i \in 1..Len(calls) : calls[i].cb = MakerHandler(op.frame.asset_id)})
\* an order-book update gave the BUY and the SELL signal of a running asset
\* whose refresh timer is running
C28_Witness ==
    /\ op.name = "message"
    /\ MapHas(states, op.frame.asset_id)
    /\ MapAt(states, op.frame.asset_id).isRunning
    /\ TimersOf(op.frame.asset_id) # {}
    /\ ActionsOf(signals) = <<"BUY", "SELL">>
    /\ signals[1].asset_id = op.frame.asset_id

\* what the engines and the registry hold for asset b
HeldFor(b) ==
    <<MapHas(states, b), MapGet(states, b),
      MapHas(refreshTimers, b), MapGet(refreshTimers, b), TimersOf(b),
      MapGet(orderBookCallbacks, b), MapGet(priceCallbacks, b)>>

\* C29: operations on one asset leave every other asset untouched.  A
\* MarketMaker.start or stop of asset A, with its continuation, and an
\* unsubscribe of A leave the state entry, the running flag, the refresh timer
\* and the order-book and price callbacks of every asset other than A as they
\* were.
C29_OtherAssetsUntouched ==
    [][ op'.name \in {"start", "startResume", "stop", "stopResume", "unsubscribe"} =>
            \A b \in Assets \ Range(op'.ids) : HeldFor(b)' = HeldFor(b) ]_vars
\* the stop of an asset completed while the other asset was running with its
\* callback and its timer
C29_Witness ==
    /\ op.name = "stopResume"
    /\ \E b \in Assets \ Range(op.ids) :
          /\ MapHas(states, b) /\ MapAt(states, b).isRunning
          /\ HandlersOf(b) # {}
          /\ TimersOf(b) # {}
    /\ isConnected

\* C30: a callback that throws while a frame for asset A is dispatched.  The
\* exception is swallowed inside handleMessage: the callbacks registered for
\* A up to the throwing one are invoked, in order, and those registered after
\* it are not; no error is reported and nothing is written, the transports,
\* the pending timers, the reconnect counter and the registry are unchanged,
\* and every later frame is dispatched to the same callbacks as before.
C30_ThrowSwallowed ==
    [][ \A s \in SockIds, f \in Frames, thr \in 1..MaxRegs :
          (/\ thr <= Len(Targets(f, orderBookCallbacks, priceCallbacks))
           /\ TransportMessage(s, f, thr)) =>
              /\ [i \in 1..Len(calls') |-> calls'[i].cb] = SubSeq(RegisteredFor(f), 1, thr)
              /\ errs' = <<>>
              /\ sent' = <<>>
              /\ UNCHANGED <<conn, registry>>
              /\ sockets'[s] = "OPEN"
              /\ \A g \in Frames :
                    Targets(g, orderBookCallbacks', priceCallbacks') =
                    Targets(g, orderBookCallbacks, priceCallbacks)
      ]_vars
\* the first of two callbacks registered for the asset of a frame threw, and
\* the second was not invoked
C30_Witness ==
    /\ op.name = "message"
    /\ op.threw
    /\ Len(RegisteredFor(op.frame)) = 2
    /\ Len(calls) = 1
    /\ isConnected
    /\ timers = 0

\* the callbacks registered on either channel
AllRegistered(obc, pc) ==
    UNION {Range(obc[i].v) : i \in 1..Len(obc)} \cup UNION {Range(pc[i].v) : i \in 1..Len(pc)}

\* C31: ArbitrageDetector.start creates every tracking entry with empty YES
\* and NO asset ids and zero prices, so neither the call nor its continuation
\* registers a callback or sends a frame, and the callback of the detector is
\* never in the registry; no frame changes a tracked market or notifies an
\* opportunity, and the prices of a tracked market change, and opportunities
\* are notified, only in updatePrices.
C31_NoStreamedPrices ==
    [][ /\ \A i \in 1..Len(monitoredMarkets') :
              /\ monitoredMarkets'[i].v.yesAssetId = ""
              /\ monitoredMarkets'[i].v.noAssetId = ""
        /\ op'.name = "arbStart" =>
              \A m \in Markets :
                 (MapHas(monitoredMarkets', m) /\ ~MapHas(monitoredMarkets, m)) =>
                    MapAt(monitoredMarkets', m) =
                       [marketId |-> m, yesAssetId |-> "", noAssetId |-> "",
                        yesPrice |-> 0, noPrice |-> 0, lastUpdate |-> 0]
        /\ op'.name \in {"arbStart", "arbStartResume"} =>
              /\ UNCHANGED registry
              /\ sent' = <<>>
        /\ ArbHandler \notin AllRegistered(orderBookCallbacks', priceCallbacks')
        /\ op'.name = "message" =>
              /\ UNCHANGED monitoredMarkets
              /\ opps' = <<>>
        /\ \A m \in Markets :
              (/\ MapHas(monitoredMarkets, m) /\ MapHas(monitoredMarkets', m)
               /\ MapAt(monitoredMarkets', m) # MapAt(monitoredMarkets, m)) =>
                    op'.name = "updatePrices"
        /\ op'.name # "updatePrices" => opps' \in {<<>>, opps}
      ]_vars
\* a price_change frame arrived on the open transport of a running detector
\* that has a callback and tracks a market with prices
C31_Witness ==
    /\ op.name = "message"
    /\ op.frame.type = "price_change"
    /\ isRunning
    /\ onOpportunity
    /\ isConnected
    /\ \E i \in 1..Len(monitoredMarkets) : monitoredMarkets[i].v.yesPrice = Num(48, 100)
    /\ opps = <<>>

\* C32: quotes stay within the price range of an outcome token.  For an order
\* book with non-empty sides whose best bid and best ask lie strictly between
\* 0 and 1, calculateQuotes returns a bid >= 0 and an ask <= 1.
C32_QuotesInRange ==
    (/\ op.name = "calculateQuotes"
     /\ op.arg[1].bids # <<>> /\ op.arg[1].asks # <<>>
     /\ 0 < parseFloat(op.arg[1].bids[1].price) /\ parseFloat(op.arg[1].bids[1].price) < SCALE
     /\ 0 < parseFloat(op.arg[1].asks[1].price) /\ parseFloat(op.arg[1].asks[1].price) < SCALE) =>
        /\ ret # <<>>
        /\ parseFloat(ret[1].bid) >= 0
        /\ parseFloat(ret[1].ask) <= SCALE

====
